---- MODULE Spec2Model ----
(***************************************************************************)
(* Model of the tree_hash crate's streaming Merkleization engine           *)
(* (eth2/utils/tree_hash): VecTreeHasher, merkleize_chunks, ChunkStore,    *)
(* the ZERO_HASHES table, the height utilities, mix_in_length and the      *)
(* TreeHash implementations of the primitive types.                        *)
(*                                                                         *)
(* Byte vectors (Vec<u8>, &[u8]) are sequences of integers.  A raw byte is *)
(* an integer in 0..255.  SHA-256 is modelled as an ideal (injective)      *)
(* hash: a digest is the term of its preimage, written as a prefix code    *)
(* inside the same integer sequences:                                      *)
(*     <<-1, n>> \o left \o right  digest of the 64 bytes left ++ right   *)
(*     <<-2, i>>  (i >= 1)       digest of a perfect all-zero tree, the    *)
(*                               normal form of the digest of Z(i-1) twice *)
(*     <<-3, n>> \o bytes        digest of a raw preimage of n # 64 bytes  *)
(* where n is the number of sequence elements that follow the two-element  *)
(* head, so the end of a digest is found without walking into it.          *)
(* A digest stands for HASHSIZE bytes wherever a length is taken.          *)
(***************************************************************************)
EXTENDS Integers, Sequences, FiniteSets, TLC

\* ------------------------------------------------------------ constants
BYTES_PER_CHUNK == 32
HASHSIZE == 32
MAX_TREE_DEPTH == 48

\* --------------------------------------------------------------- bounds
\* Heights of the hashers that are created.
MaxHeight == 4
\* Leaf chunks (32-byte windows) a hasher is fed at most.
MaxLeaves == 5
\* Number of input byte streams.
MaxStream == 3
\* Longest chunk store handed directly to merkleize_chunks.
MaxChunks == 9
\* Largest height handed directly to merkleize_chunks.
MaxReduceHeight == 6
\* The caller's count of its non-empty update calls stops at this number.
MaxCalls == 2
\* Heights requested beyond MAX_TREE_DEPTH go up to MAX_TREE_DEPTH + MaxOver.
MaxOver == 3
\* Largest leaf count and value count handed to the height utilities.
MaxCount == 70
\* Threads that call get_zero_hash concurrently.
MaxThreads == 2
\* Update calls whose lengths the caller of a hasher keeps in its log.
MaxLog == 3
\* Updates each of two hashers alive at once is given.
MaxTwoCalls == 2
\* Longest ChunkStore that push builds when the store is driven directly.
MaxStore == 4

VARIABLES
    \* fields of VecTreeHasher
    height, chunks, context, context_size, first_chunk, should_pack,
    \* the caller of the hasher: which stream it feeds, how many bytes it
    \* has fed, whether finish has consumed the hasher, and what finish gave
    input, fed, calls, phase, result,
    \* number of SHA-256 digests the hasher has computed so far
    hashes,
    \* a direct call of merkleize_chunks: its arguments and what it gave
    mc_chunks, mc_height, mc_result,
    \* the lazy static ZERO_HASHES (None until its first dereference) and a
    \* caller of get_zero_hash: where it is, the height it asked for, what
    \* came back and which table index was read
    zero_hashes, zh_pc, zh_height, zh_ret, zh_index,
    \* a call of one of the crate's pure functions and what it returned
    call, ret,
    \* threads racing on the lazy static: the state of its Once, each
    \* thread's position and locals, and how often the initializer was entered
    once, th, builds,
    \* two hashers owned by two callers
    hs,
    \* a ChunkStore and the last operation called on it
    cs, cs_op,
    \* the lengths of the update calls made on the hasher, oldest first
    log

hasher_vars == <<height, chunks, context, context_size, first_chunk, should_pack>>
caller_vars == <<input, fed, calls, phase, result, hashes>>
mc_vars == <<mc_chunks, mc_height, mc_result>>
zero_vars == <<zero_hashes, zh_pc, zh_height, zh_ret, zh_index>>
pure_vars == <<call, ret>>
race_vars == <<once, th, builds>>
store_vars == <<cs, cs_op>>
new_vars == <<race_vars, hs, store_vars>>
other_vars == <<zero_vars, pure_vars, new_vars>>
vars == <<hasher_vars, caller_vars, mc_vars, other_vars, log>>

\* ------------------------------------------------------- byte vectors
Min(a, b) == IF a < b THEN a ELSE b
Max(a, b) == IF a > b THEN a ELSE b

RECURSIVE Pow2(_)
Pow2(n) == IF n <= 0 THEN 1 ELSE 2 * Pow2(n - 1)

\* vec![0; n]
Zeros(n) == [i \in 1..n |-> 0]

\* Mutant of resize: the vector is left as it is.
resize_keep(v, n) == v

\* Vec::resize(n, 0)
resize(v, n) == IF Len(v) >= n THEN SubSeq(v, 1, n) ELSE v \o Zeros(n - Len(v))

ZeroChunk == Zeros(BYTES_PER_CHUNK)

\* The index just after the chunk (32 raw bytes, or one digest term) that
\* starts at index i of v.
ChunkEnd(v, i) ==
    IF i > Len(v) THEN i
    ELSE IF v[i] >= 0 THEN i + BYTES_PER_CHUNK
    ELSE IF v[i] = -2 THEN i + 2
    ELSE i + 2 + v[i + 1]

\* Vec::len of the bytes v stands for, counted from index i.
RECURSIVE ByteLenFrom(_, _)
ByteLenFrom(v, i) ==
    IF i > Len(v) THEN 0
    ELSE IF v[i] >= 0 THEN 1 + ByteLenFrom(v, i + 1)
    ELSE HASHSIZE + ByteLenFrom(v, ChunkEnd(v, i))

ByteLen(v) == ByteLenFrom(v, 1)

\* ------------------------------------------------------------ hashing
IsZeroHash(c) == c = ZeroChunk \/ (Len(c) = 2 /\ c[1] = -2)
ZeroLevel(c) == IF c = ZeroChunk THEN 0 ELSE c[2]
ZeroHashTerm(i) == IF i = 0 THEN ZeroChunk ELSE <<-2, i>>

\* hash_concat(h1, h2): SHA-256 of h1 ++ h2.
hash_concat(h1, h2) ==
    IF h1 = h2 /\ IsZeroHash(h1)
    THEN ZeroHashTerm(ZeroLevel(h1) + 1)
    ELSE <<-1, Len(h1) + Len(h2)>> \o h1 \o h2

\* Context::finish of a context that was fed the raw bytes `preimage`.
ContextFinish(preimage) ==
    IF Len(preimage) = 2 * BYTES_PER_CHUNK
    THEN hash_concat(SubSeq(preimage, 1, BYTES_PER_CHUNK),
                     SubSeq(preimage, BYTES_PER_CHUNK + 1, 2 * BYTES_PER_CHUNK))
    ELSE <<-3, Len(preimage)>> \o preimage

\* hash(preimage)
hash(preimage) == ContextFinish(preimage)

EMPTY_HASH == hash(<<>>)

\* Mutant of the table's loop: every entry is built from entry 0.
ZeroHashesFill_from_zero(hashes_, i) ==
    [j \in DOMAIN hashes_ |->
        IF j <= i THEN hashes_[j] ELSE hash_concat(hashes_[0], hashes_[0])]

\* The loop body: hashes[i + 1] = hash_concat(&hashes[i], &hashes[i]).
ZeroHashesStep(hashes_, i) ==
    [hashes_ EXCEPT ![i + 1] = hash_concat(hashes_[i], hashes_[i])]

\* lazy_static ZERO_HASHES: the loop `for i in 0..MAX_TREE_DEPTH`.
RECURSIVE ZeroHashesFill(_, _)
ZeroHashesFill(hashes_, i) ==
    IF i >= MAX_TREE_DEPTH THEN hashes_
    ELSE ZeroHashesFill(ZeroHashesStep(hashes_, i), i + 1)

\* Mutant of the lazy static's guard: whoever finds the table unfinished
\* runs the initializer.
call_once_unsynchronised(once_) ==
    IF once_ = "complete" THEN "skip" ELSE "run"

\* What the Once behind lazy_static! tells a thread that dereferences the
\* static: run the initializer, wait for the thread that is running it, or
\* go on to the value.
call_once(once_) ==
    IF once_ = "incomplete" THEN "run"
    ELSE IF once_ = "running" THEN "wait"
    ELSE "skip"

ZERO_HASHES == ZeroHashesFill([i \in 0..MAX_TREE_DEPTH |-> ZeroChunk], 0)

\* Mutant of get_zero_hash: the padding node of the level below.
get_zero_hash_below(h) ==
    IF h <= MAX_TREE_DEPTH
    THEN [panic |-> "", v |-> ZERO_HASHES[h - 1]]
    ELSE [panic |-> "Tree exceeds MAX_TREE_DEPTH", v |-> <<>>]

\* Mutant of get_zero_hash: the last table entry is refused.
get_zero_hash_strict(h) ==
    IF h < MAX_TREE_DEPTH
    THEN [panic |-> "", v |-> ZERO_HASHES[h]]
    ELSE [panic |-> "Tree exceeds MAX_TREE_DEPTH", v |-> <<>>]

\* get_zero_hash(height): the table entry, or the panic.
get_zero_hash(h) ==
    IF h <= MAX_TREE_DEPTH
    THEN [panic |-> "", v |-> ZERO_HASHES[h]]
    ELSE [panic |-> "Tree exceeds MAX_TREE_DEPTH", v |-> <<>>]

\* Mutant of next_even_number: rounds down.
next_even_number_floor(n) == n - (n % 2)

next_even_number(n) == n + (n % 2)

\* ---------------------------------------------------------- ChunkStore
\* A ChunkStore is a sequence of digests; index i of the code is i + 1 here.
with_capacity(n) == [i \in 1..n |-> EMPTY_HASH]

store_len(store) == Len(store)

\* Mutant of set: an index one past the end appends.
store_set_grow(store, i, value) ==
    IF i < store_len(store)
    THEN [ok |-> TRUE, store |-> [store EXCEPT ![i + 1] = value]]
    ELSE IF i = store_len(store)
        THEN [ok |-> TRUE, store |-> Append(store, value)]
    ELSE [ok |-> FALSE, store |-> store]

store_set(store, i, value) ==
    IF i < store_len(store)
    THEN [ok |-> TRUE, store |-> [store EXCEPT ![i + 1] = value]]
    ELSE [ok |-> FALSE, store |-> store]

store_push(store, value) == Append(store, value)

get_slice(store, i) ==
    IF i < store_len(store)
    THEN [ok |-> TRUE, v |-> store[i + 1]]
    ELSE [ok |-> FALSE, v |-> <<>>]

\* Mutant of truncate: nothing is dropped.
truncate_keep(store, num_chunks) == store

truncate(store, num_chunks) ==
    IF num_chunks < Len(store) THEN SubSeq(store, 1, num_chunks) ELSE store

RECURSIVE into_vec_from(_, _)
into_vec_from(store, i) ==
    IF i > Len(store) THEN <<>> ELSE store[i] \o into_vec_from(store, i + 1)

into_vec(store) == into_vec_from(store, 1)

\* ---------------------------------------------------- merkleize_chunks
\* The state of one call: the store, the panic raised ("" while none), and
\* what the call has done so far (digests computed, reads of ZERO_HASHES,
\* rounds of the outer loop run).
MerkleState(store) ==
    [chunks |-> store, panic |-> "", hashes |-> 0, zero_reads |-> 0, rounds |-> 0]

\* The body of `for i in 0..parent_nodes` for one i, at level `level`.
reduce_pair(st, level, i) ==
    LET l == get_slice(st.chunks, i * 2)
        r == get_slice(st.chunks, i * 2 + 1)
        z == get_zero_hash(level)
        left == l.v
        right == IF r.ok THEN r.v ELSE z.v
        put == store_set(st.chunks, i, hash_concat(left, right))
    IN  IF ~l.ok /\ ~r.ok THEN [st EXCEPT !.panic = "Parent must have one child"]
        ELSE IF ~l.ok THEN [st EXCEPT !.panic = "Parent must have a left child"]
        ELSE IF ~r.ok /\ z.panic # ""
            THEN [st EXCEPT !.panic = z.panic]
        ELSE IF ~(ByteLen(left) = ByteLen(right) /\ ByteLen(right) = BYTES_PER_CHUNK)
            THEN [st EXCEPT !.panic = "Both children should be BYTES_PER_CHUNK bytes",
                            !.zero_reads = @ + (IF r.ok THEN 0 ELSE 1)]
        ELSE IF ~put.ok
            THEN [st EXCEPT !.panic = "Buf is adequate size for parent",
                            !.hashes = @ + 1,
                            !.zero_reads = @ + (IF r.ok THEN 0 ELSE 1)]
        ELSE [st EXCEPT !.chunks = put.store,
                        !.hashes = @ + 1,
                        !.zero_reads = @ + (IF r.ok THEN 0 ELSE 1)]

\* Mutant of reduce_pairs: the parents are written from the last one down.
RECURSIVE reduce_pairs_down(_, _, _, _)
reduce_pairs_down(st, level, i, parent_nodes) ==
    IF i >= parent_nodes \/ st.panic # "" THEN st
    ELSE reduce_pair(reduce_pairs_down(st, level, i + 1, parent_nodes), level, i)

\* `for i in 0..parent_nodes { ... }`
RECURSIVE reduce_pairs(_, _, _, _)
reduce_pairs(st, level, i, parent_nodes) ==
    IF i >= parent_nodes \/ st.panic # "" THEN st
    ELSE reduce_pairs(reduce_pair(st, level, i), level, i + 1, parent_nodes)

\* One round of the outer loop: pair up the store at `level`, then truncate.
reduce_round(st, level) ==
    LET child_nodes == store_len(st.chunks)
        parent_nodes == next_even_number(child_nodes) \div 2
        done == reduce_pairs(st, level, 0, parent_nodes)
    IN  IF done.panic # "" THEN done
        ELSE [done EXCEPT !.chunks = truncate(@, parent_nodes), !.rounds = @ + 1]

\* Mutant of reduce_levels: the loop runs one level further
\* (`for height in 1..height`).
RECURSIVE reduce_levels_further(_, _, _)
reduce_levels_further(st, level, h) ==
    IF level >= h \/ st.panic # "" THEN st
    ELSE reduce_levels_further(reduce_round(st, level), level + 1, h)

\* `for height in 1..height - 1 { ... }`
RECURSIVE reduce_levels(_, _, _)
reduce_levels(st, level, h) ==
    IF level >= h - 1 \/ st.panic # "" THEN st
    ELSE reduce_levels(reduce_round(st, level), level + 1, h)

\* What a call gave: status "root" with the Vec<u8> returned, or "panic".
MerkleResult(st, status, root) ==
    [status |-> status, root |-> root, panic |-> st.panic,
     hashes |-> st.hashes, zero_reads |-> st.zero_reads, rounds |-> st.rounds,
     remaining |-> store_len(st.chunks)]

\* Mutant of merkleize_chunks: the rounds start at level 0 and include the
\* top level (`for height in 0..height`).
merkleize_chunks_from_leaves(store, h) ==
    IF store_len(store) = 0
    THEN MerkleResult(MerkleState(store), "root", Zeros(BYTES_PER_CHUNK))
    ELSE LET st == reduce_levels(MerkleState(store), 0, h + 1)
             root == into_vec(st.chunks)
         IN  IF st.panic # "" THEN MerkleResult(st, "panic", <<>>)
             ELSE IF ByteLen(root) # BYTES_PER_CHUNK
                 THEN MerkleResult([st EXCEPT !.panic = "Exactly one chunk should remain"],
                                   "panic", <<>>)
             ELSE MerkleResult(st, "root", root)

\* Mutant of merkleize_chunks: no early return for an empty store.
merkleize_chunks_no_empty(store, h) ==
    LET st == IF h > 2 THEN reduce_levels(MerkleState(store), 1, h)
              ELSE MerkleState(store)
        root == into_vec(st.chunks)
    IN  IF st.panic # "" THEN MerkleResult(st, "panic", <<>>)
        ELSE IF ByteLen(root) # BYTES_PER_CHUNK
            THEN MerkleResult([st EXCEPT !.panic = "Exactly one chunk should remain"],
                              "panic", <<>>)
        ELSE MerkleResult(st, "root", root)

merkleize_chunks(store, h) ==
    IF store_len(store) = 0
    THEN MerkleResult(MerkleState(store), "root", Zeros(BYTES_PER_CHUNK))
    ELSE LET st == IF h > 2 THEN reduce_levels(MerkleState(store), 1, h)
                   ELSE MerkleState(store)
             root == into_vec(st.chunks)
         IN  IF st.panic # "" THEN MerkleResult(st, "panic", <<>>)
             ELSE IF ByteLen(root) # BYTES_PER_CHUNK
                 THEN MerkleResult([st EXCEPT !.panic = "Exactly one chunk should remain"],
                                   "panic", <<>>)
             ELSE MerkleResult(st, "root", root)

\* -------------------------------------------------------- VecTreeHasher
\* Option<Vec<u8>>
Some(v) == [some |-> TRUE, v |-> v]
None == [some |-> FALSE, v |-> <<>>]

\* A hasher value: the struct's fields, the panic raised inside one of its
\* methods ("" while none) and the digests it has computed.  Three more
\* fields observe what happens inside the calls made on this value: peak is
\* the largest context_size reached, widest the longest slice handed to
\* update_maybe_padded, flushed_at the context sizes at which finish_context
\* ran, splits the number of slices that took the split branch of update.
new(h, pack) ==
    [height |-> h,
     chunks |-> with_capacity(0),
     context |-> <<>>,
     context_size |-> 0,
     first_chunk |-> Some(<<>>),
     should_pack |-> pack,
     panic |-> "",
     hashes |-> 0,
     peak |-> 0,
     widest |-> 0,
     flushed_at |-> {},
     splits |-> 0]

packed(h) == new(h, TRUE)

not_packed(h) == new(h, FALSE)

\* Mutant of finish_context: the flush turns padding on.
finish_context_unpack(self) ==
    [self EXCEPT !.chunks = store_push(@, ContextFinish(self.context)),
                 !.context = <<>>,
                 !.context_size = 0,
                 !.hashes = @ + 1,
                 !.should_pack = FALSE,
                 !.flushed_at = @ \cup {self.context_size}]

finish_context(self) ==
    [self EXCEPT !.chunks = store_push(@, ContextFinish(self.context)),
                 !.context = <<>>,
                 !.context_size = 0,
                 !.hashes = @ + 1,
                 !.flushed_at = @ \cup {self.context_size}]

\* Mutant of update_first_chunk: the new bytes replace the buffered ones.
update_first_chunk_replace(self, bytes) ==
    IF self.first_chunk.some
    THEN IF Len(self.first_chunk.v) + Len(bytes) <= BYTES_PER_CHUNK
         THEN [self EXCEPT !.first_chunk = Some(bytes)]
         ELSE [self EXCEPT !.first_chunk = None]
    ELSE self

\* Mutant of update_first_chunk: a short update starts the fast-path buffer
\* again.
update_first_chunk_revive(self, bytes) ==
    IF self.first_chunk.some
    THEN IF Len(self.first_chunk.v) + Len(bytes) <= BYTES_PER_CHUNK
         THEN [self EXCEPT !.first_chunk = Some(self.first_chunk.v \o bytes)]
         ELSE [self EXCEPT !.first_chunk = None]
    ELSE IF Len(bytes) <= BYTES_PER_CHUNK
         THEN [self EXCEPT !.first_chunk = Some(bytes)]
         ELSE self

update_first_chunk(self, bytes) ==
    IF self.first_chunk.some
    THEN IF Len(self.first_chunk.v) + Len(bytes) <= BYTES_PER_CHUNK
         THEN [self EXCEPT !.first_chunk = Some(self.first_chunk.v \o bytes)]
         ELSE [self EXCEPT !.first_chunk = None]
    ELSE self

\* Mutant of update_maybe_padded: pads whatever the packing policy.
update_maybe_padded_always(self, bytes) ==
    IF self.panic # "" THEN self
    ELSE IF ~(Len(bytes) <= BYTES_PER_CHUNK)
        THEN [self EXCEPT !.panic = "assertion failed: bytes.len() <= BYTES_PER_CHUNK"]
    ELSE [self EXCEPT !.context = @ \o resize(bytes, BYTES_PER_CHUNK),
                      !.context_size = @ + BYTES_PER_CHUNK]

\* Mutant of update_maybe_padded: under NotPacked every slice is followed
\* by padding, a whole zero chunk when the slice is full.
update_maybe_padded_chunk(self, bytes) ==
    IF self.panic # "" THEN self
    ELSE IF ~(Len(bytes) <= BYTES_PER_CHUNK)
        THEN [self EXCEPT !.panic = "assertion failed: bytes.len() <= BYTES_PER_CHUNK"]
    ELSE LET padding == IF Len(bytes) = BYTES_PER_CHUNK THEN BYTES_PER_CHUNK
                        ELSE BYTES_PER_CHUNK - Len(bytes)
             fed_ == [self EXCEPT !.context = @ \o bytes,
                                  !.context_size = @ + Len(bytes)]
         IN  IF ~self.should_pack
             THEN [fed_ EXCEPT !.context = @ \o Zeros(padding),
                               !.context_size = @ + padding]
             ELSE fed_

\* Mutant of update_maybe_padded: never pads.
update_maybe_padded_never(self, bytes) ==
    IF self.panic # "" THEN self
    ELSE IF ~(Len(bytes) <= BYTES_PER_CHUNK)
        THEN [self EXCEPT !.panic = "assertion failed: bytes.len() <= BYTES_PER_CHUNK"]
    ELSE [self EXCEPT !.context = @ \o bytes,
                      !.context_size = @ + Len(bytes)]

update_maybe_padded(self, bytes) ==
    IF self.panic # "" THEN self
    ELSE IF ~(Len(bytes) <= BYTES_PER_CHUNK)
        THEN [self EXCEPT !.panic = "assertion failed: bytes.len() <= BYTES_PER_CHUNK",
                          !.widest = Max(@, Len(bytes))]
    ELSE LET padding == BYTES_PER_CHUNK - Len(bytes)
             fed_ == [self EXCEPT !.context = @ \o bytes,
                                  !.context_size = @ + Len(bytes),
                                  !.peak = Max(@, self.context_size + Len(bytes)),
                                  !.widest = Max(@, Len(bytes))]
         IN  IF ~self.should_pack /\ padding > 0
             THEN [fed_ EXCEPT !.context = @ \o Zeros(padding),
                               !.context_size = @ + padding,
                               !.peak = Max(@, fed_.context_size + padding)]
             ELSE fed_

\* Mutant of update_slice: after the flush the rest of the slice is lost.
update_slice_drop(self, bytes) ==
    IF self.panic # "" THEN self
    ELSE LET remaining == BYTES_PER_CHUNK * 2 - self.context_size
             applied ==
                 IF remaining >= Len(bytes)
                 THEN update_maybe_padded(self, bytes)
                 ELSE finish_context(
                          update_maybe_padded(self, SubSeq(bytes, 1, remaining)))
         IN  IF applied.panic = "" /\ applied.context_size = BYTES_PER_CHUNK * 2
             THEN finish_context(applied)
             ELSE applied

\* Mutant of update_slice: a buffer that has become full is left standing.
update_slice_noflush(self, bytes) ==
    IF self.panic # "" THEN self
    ELSE IF self.context_size > BYTES_PER_CHUNK * 2
        THEN [self EXCEPT !.panic = "attempt to subtract with overflow"]
    ELSE LET remaining == BYTES_PER_CHUNK * 2 - self.context_size
         IN  IF remaining >= Len(bytes)
             THEN update_maybe_padded(self, bytes)
             ELSE update_maybe_padded(
                      finish_context(
                          update_maybe_padded(self, SubSeq(bytes, 1, remaining))),
                      SubSeq(bytes, remaining + 1, Len(bytes)))

\* The closure `bytes.chunks(BYTES_PER_CHUNK).for_each(|bytes| ...)` runs
\* for one slice.
update_slice(self, bytes) ==
    IF self.panic # "" THEN self
    ELSE IF self.context_size > BYTES_PER_CHUNK * 2
        THEN [self EXCEPT !.panic = "attempt to subtract with overflow"]
    ELSE LET remaining == BYTES_PER_CHUNK * 2 - self.context_size
             applied ==
                 IF remaining >= Len(bytes)
                 THEN update_maybe_padded(self, bytes)
                 ELSE update_maybe_padded(
                          finish_context(
                              update_maybe_padded([self EXCEPT !.splits = @ + 1],
                                                  SubSeq(bytes, 1, remaining))),
                          SubSeq(bytes, remaining + 1, Len(bytes)))
         IN  IF applied.panic = "" /\ applied.context_size = BYTES_PER_CHUNK * 2
             THEN finish_context(applied)
             ELSE applied

\* bytes.chunks(BYTES_PER_CHUNK).for_each(...)
RECURSIVE update_slices(_, _)
update_slices(self, bytes) ==
    IF Len(bytes) = 0 THEN self
    ELSE LET n == Min(BYTES_PER_CHUNK, Len(bytes))
         IN  update_slices(update_slice(self, SubSeq(bytes, 1, n)),
                           SubSeq(bytes, n + 1, Len(bytes)))

update(self, bytes) == update_slices(update_first_chunk(self, bytes), bytes)

\* What finish gave: status "root" with the Vec<u8> returned, or "panic";
\* whether the early return was taken; what finish itself did; and the store
\* and buffer size handed to merkleize_chunks.
FinishResult(status, root, panic, fast, self, before, m) ==
    [status |-> status, root |-> root, panic |-> panic, fast |-> fast,
     finish_hashes |-> (self.hashes - before) + m.hashes,
     zero_reads |-> m.zero_reads, rounds |-> m.rounds,
     store_in |-> self.chunks, context_size_in |-> self.context_size]

NoMerkle == MerkleResult(MerkleState(<<>>), "none", <<>>)

\* Mutant of finish_general: the buffer goes unpadded and unflushed.
finish_general_unpadded(self) ==
    LET m == merkleize_chunks(self.chunks, self.height)
    IN  FinishResult(m.status, m.root, m.panic, FALSE, self, self.hashes, m)

\* finish from `if self.context_size > 0 || ...` on.
finish_general(self) ==
    LET padded ==
            IF self.context_size > 0
               \/ (self.context_size = 0 /\ store_len(self.chunks) = 0)
            THEN update(self, Zeros(BYTES_PER_CHUNK * 2 - self.context_size))
            ELSE self
        m == merkleize_chunks(padded.chunks, padded.height)
    IN  IF padded.panic # ""
        THEN FinishResult("panic", <<>>, padded.panic, FALSE, padded, self.hashes, NoMerkle)
        ELSE FinishResult(m.status, m.root, m.panic, FALSE, padded, self.hashes, m)

finish(self) ==
    IF self.height = 1 /\ self.first_chunk.some
    THEN FinishResult("root", resize(self.first_chunk.v, BYTES_PER_CHUNK), "",
                      TRUE, self, self.hashes, NoMerkle)
    ELSE finish_general(self)

\* height_for_leaf_count: usize::next_power_of_two, then trailing_zeros.
RECURSIVE next_power_of_two_from(_, _)
next_power_of_two_from(n, p) == IF p >= n THEN p ELSE next_power_of_two_from(n, 2 * p)

next_power_of_two(n) == next_power_of_two_from(n, 1)

RECURSIVE trailing_zeros(_)
trailing_zeros(n) ==
    IF n = 0 THEN 64 ELSE IF n % 2 = 1 THEN 0 ELSE 1 + trailing_zeros(n \div 2)

\* Mutant of height_for_leaf_count: the `+ 1` is missing.
height_for_leaf_count_log(leaf_count) == trailing_zeros(next_power_of_two(leaf_count))

height_for_leaf_count(leaf_count) == trailing_zeros(next_power_of_two(leaf_count)) + 1

\* enum TreeHashPacking
NotPacked == [packed |-> FALSE, packing_factor |-> 0]
Packed(packing_factor) == [packed |-> TRUE, packing_factor |-> packing_factor]

\* Mutant of height_for_value_count: the leaf count is rounded down.
height_for_value_count_floor(self, value_count) ==
    LET num_leaves == IF ~self.packed THEN value_count
                      ELSE value_count \div self.packing_factor
    IN  height_for_leaf_count(num_leaves)

\* TreeHashPacking::height_for_value_count
height_for_value_count(self, value_count) ==
    LET num_leaves == IF ~self.packed THEN value_count
                      ELSE (value_count + self.packing_factor - 1) \div self.packing_factor
    IN  height_for_leaf_count(num_leaves)

\* ------------------------------------------------- TreeHash for primitives
\* An unsigned integer of `bits` bits is held as its base-65536 digits, least
\* significant first (one digit below 256 for u8), so that the whole range
\* of u32 and u64 is covered.
\* The $bit_size of impl_for_bitsize! for each type.
bit_size(ty) ==
    CASE ty = "u8" -> 8
      [] ty = "u16" -> 16
      [] ty = "u32" -> 32
      [] ty = "u64" -> 64
      [] ty = "usize" -> 64

\* Mutant of to_le_bytes: the most significant byte comes first.
to_be_bytes(v, bits) ==
    [k \in 1..(bits \div 8) |->
        LET j == (bits \div 8) - k
            limb == v[(j \div 2) + 1]
        IN  IF j % 2 = 0 THEN limb % 256 ELSE limb \div 256]

\* {integer}::to_le_bytes: byte k (from 0) is (v / 256^k) mod 256.
to_le_bytes(v, bits) ==
    [k \in 1..(bits \div 8) |->
        LET j == k - 1
            limb == v[(j \div 2) + 1]
        IN  IF j % 2 = 0 THEN limb % 256 ELSE limb \div 256]

\* impl_for_bitsize!: tree_hash_apply_root hands f the bytes to_le_bytes().
uint_tree_hash_apply_root(v, bits) == to_le_bytes(v, bits)

\* Mutant of the packing factor: chunk size over the bit size.
uint_tree_hash_packing_bits(bits) == Packed(HASHSIZE \div bits)

\* impl_for_bitsize!: tree_hash_packing
uint_tree_hash_packing(bits) == Packed(HASHSIZE \div (bits \div 8))

\* impl_for_bitsize!: tree_hash_root
uint_tree_hash_root(v, bits) == resize(to_le_bytes(v, bits), BYTES_PER_CHUNK)

\* Mutant of the cast: true becomes 0xff.
bool_as_u8_ones(b) == IF b THEN <<255>> ELSE <<0>>

\* `*self as u8` for a bool.
bool_as_u8(b) == IF b THEN <<1>> ELSE <<0>>

\* impl TreeHash for bool
bool_tree_hash_apply_root(b) == uint_tree_hash_apply_root(bool_as_u8(b), bit_size("u8"))
bool_tree_hash_packing == uint_tree_hash_packing(bit_size("u8"))
bool_tree_hash_root(b) == uint_tree_hash_root(bool_as_u8(b), bit_size("u8"))

\* impl_for_u8_array!: f(&self[..]), NotPacked, to_vec() resized to a chunk.
array_tree_hash_apply_root(self) == self
array_tree_hash_packing == NotPacked

\* Mutant of the array root: the bytes are hashed.
array_tree_hash_root_hashed(self) == hash(self)

array_tree_hash_root(self) == resize(self, BYTES_PER_CHUNK)

\* impl TreeHash for H256: f(&self[..]), NotPacked, as_bytes().to_vec().
h256_tree_hash_apply_root(self) == self
h256_tree_hash_packing == NotPacked
h256_tree_hash_root(self) == self

\* The trait's methods, dispatched on the implementing type.
IsUInt(ty) == ty \in {"u8", "u16", "u32", "u64", "usize"}

tree_hash_apply_root(ty, self) ==
    IF IsUInt(ty) THEN uint_tree_hash_apply_root(self, bit_size(ty))
    ELSE IF ty = "bool" THEN bool_tree_hash_apply_root(self)
    ELSE IF ty = "H256" THEN h256_tree_hash_apply_root(self)
    ELSE array_tree_hash_apply_root(self)

tree_hash_packing(ty) ==
    IF IsUInt(ty) THEN uint_tree_hash_packing(bit_size(ty))
    ELSE IF ty = "bool" THEN bool_tree_hash_packing
    ELSE IF ty = "H256" THEN h256_tree_hash_packing
    ELSE array_tree_hash_packing

tree_hash_root(ty, self) ==
    IF IsUInt(ty) THEN uint_tree_hash_root(self, bit_size(ty))
    ELSE IF ty = "bool" THEN bool_tree_hash_root(self)
    ELSE IF ty = "H256" THEN h256_tree_hash_root(self)
    ELSE array_tree_hash_root(self)

\* merkleize_padded::hash_concat: SHA-256 of h1 ++ h2.
padded_hash_concat(h1, h2) == hash_concat(h1, h2)

\* Mutant of mix_in_length: the length is not padded to a chunk.
mix_in_length_unpadded(root, length) ==
    hash(root \o to_le_bytes(length, bit_size("usize")))

\* mix_in_length(root, length)
mix_in_length(root, length) ==
    LET length_bytes == resize(to_le_bytes(length, bit_size("usize")), BYTES_PER_CHUNK)
    IN  padded_hash_concat(root, length_bytes)

\* ---------------------------------------------------------- the callers
\* Byte j (from 1) of input stream id: stream 1 is all zero, stream 2 has
\* no zero byte and differs at neighbouring positions, stream 3 is the u64
\* values 1, 2, 3, ... as to_le_bytes writes them, the others mix zero and
\* non-zero bytes.
StreamByte(id, j) ==
    IF id = 1 THEN 0
    ELSE IF id = 2 THEN ((j - 1) % 255) + 1
    ELSE IF id = 3 THEN (IF (j - 1) % 8 = 0 THEN (((j - 1) \div 8) + 1) % 256 ELSE 0)
    ELSE (id * j + (j \div BYTES_PER_CHUNK)) % 4

\* The n bytes of stream id that follow its first `from` bytes.
StreamSlice(id, from, n) == [j \in 1..n |-> StreamByte(id, from + j)]

\* Sum of the lengths in q: the bytes a caller has fed.
RECURSIVE SumSeq(_)
SumSeq(q) == IF Len(q) = 0 THEN 0 ELSE q[1] + SumSeq(Tail(q))

\* Lengths of the slices a caller hands to update.
NotPackedLens == {0, 1, 8, BYTES_PER_CHUNK, BYTES_PER_CHUNK + 1, 2 * BYTES_PER_CHUNK}
PackedLens ==
    {0, 1, 2, 3, 7, 8, 16, BYTES_PER_CHUNK - 1, BYTES_PER_CHUNK, BYTES_PER_CHUNK + 1, 48,
     2 * BYTES_PER_CHUNK - 1, 2 * BYTES_PER_CHUNK, 2 * BYTES_PER_CHUNK + 1,
     3 * BYTES_PER_CHUNK, 4 * BYTES_PER_CHUNK, 4 * BYTES_PER_CHUNK + 1,
     BYTES_PER_CHUNK * MaxLeaves}
UpdateLens(pack) == IF pack THEN PackedLens ELSE NotPackedLens

\* Bytes that have entered hashing windows: flushed pairs and the open buffer.
WindowBytes(self) == 2 * BYTES_PER_CHUNK * store_len(self.chunks) + self.context_size

\* A digest of some non-zero data, one per index.
DataDigest(i) == ContextFinish([j \in 1..(2 * BYTES_PER_CHUNK) |-> i])

\* Chunk stores of n digests: each either an all-zero pair's digest or data.
ChunkListsOf(n) ==
    {[i \in 1..n |-> IF i \in Z THEN ZERO_HASHES[1] ELSE DataDigest(i)] : Z \in SUBSET (1..n)}
ChunkLists == UNION {ChunkListsOf(n) : n \in 0..MaxChunks}

\* The hasher as a value.
Self ==
    [height |-> height, chunks |-> chunks, context |-> context,
     context_size |-> context_size, first_chunk |-> first_chunk,
     should_pack |-> should_pack, panic |-> "", hashes |-> hashes,
     peak |-> context_size, widest |-> 0, flushed_at |-> {}, splits |-> 0]

NoResult == FinishResult("none", <<>>, "", FALSE, new(1, TRUE), 0, NoMerkle)

SetHasher(self) ==
    /\ height' = self.height
    /\ chunks' = self.chunks
    /\ context' = self.context
    /\ context_size' = self.context_size
    /\ first_chunk' = self.first_chunk
    /\ should_pack' = self.should_pack
    /\ hashes' = self.hashes

InitHasherIn(h, pack, ph) ==
    LET self == new(h, pack)
    IN  /\ height = self.height
        /\ chunks = self.chunks
        /\ context = self.context
        /\ context_size = self.context_size
        /\ first_chunk = self.first_chunk
        /\ should_pack = self.should_pack
        /\ hashes = self.hashes
        /\ fed = 0
        /\ calls = 0
        /\ phase = ph
        /\ result = NoResult

InitHasher(h, pack) == InitHasherIn(h, pack, "open")

\* Nobody has asked for a zero hash: the lazy static is not built yet.
NoZeroHash == [panic |-> "", v |-> <<>>]

ZeroIdle ==
    /\ zero_hashes = None
    /\ zh_pc = "idle"
    /\ zh_height = 0
    /\ zh_ret = NoZeroHash
    /\ zh_index = -1

\* No pure function is being called.
NoCall == [fn |-> "", ty |-> "", n |-> 0, k |-> 0, v |-> <<>>, root |-> <<>>, b |-> FALSE]
NoRet == [done |-> FALSE, n |-> 0, v |-> <<>>, packed |-> FALSE]

PureIdle ==
    /\ call = NoCall
    /\ ret = NoRet

\* No thread has touched the lazy static.
IdleThread == [pc |-> "idle", height |-> 0, ret |-> NoZeroHash,
               hashes |-> <<>>, i |-> 0, waited |-> FALSE]

RaceIdle ==
    /\ once = "incomplete"
    /\ th = <<>>
    /\ builds = 0

\* No ChunkStore operation has been called.
NoOp == [op |-> "", i |-> 0, v |-> <<>>, ok |-> TRUE, out |-> <<>>, before |-> <<>>]

StoreIdle ==
    /\ cs = <<>>
    /\ cs_op = NoOp

RestIdle ==
    /\ RaceIdle
    /\ hs = <<>>
    /\ StoreIdle

\* VecTreeHasher::packed(h) or ::not_packed(h), before any update.
Init ==
    /\ \E h \in 1..MaxHeight, pack \in BOOLEAN : InitHasher(h, pack)
    /\ input \in 1..MaxStream
    /\ mc_chunks = <<>>
    /\ mc_height = 1
    /\ mc_result = NoMerkle
    /\ ZeroIdle
    /\ PureIdle
    /\ RestIdle
    /\ log = <<>>

\* Mutant of alive: a hasher can be called whatever happened to it.
alive_always(ph) == TRUE

\* The caller still holds the hasher: `finish(mut self)` moves it out of
\* the caller's hands, and a panic unwinds through its owner.
alive(ph) == ph = "open"

\* hasher.update(bytes) with the next n bytes of the input stream.
UpdateHasher(n) ==
    /\ alive(phase)
    /\ LET self == update(Self, StreamSlice(input, fed, n))
       IN  /\ WindowBytes(self) <= BYTES_PER_CHUNK * MaxLeaves
           /\ SetHasher(self)
           /\ phase' = IF self.panic = "" THEN "open" ELSE "panicked"
           /\ result' = IF self.panic = "" THEN result
                        ELSE [result EXCEPT !.status = "panic", !.panic = self.panic]
    /\ fed' = fed + n
    /\ calls' = IF n > 0 THEN Min(calls + 1, MaxCalls) ELSE calls
    /\ UNCHANGED <<input, mc_vars, other_vars>>

Update(n) == UpdateHasher(n) /\ UNCHANGED log

\* hasher.finish(): consumes the hasher.
Finish ==
    /\ alive(phase)
    /\ result' = finish(Self)
    /\ phase' = "finished"
    /\ hashes' = hashes + result'.finish_hashes
    /\ UNCHANGED <<hasher_vars, input, fed, calls, mc_vars, other_vars, log>>

Next ==
    \/ \E n \in UpdateLens(should_pack) : Update(n)
    \/ Finish

Spec == Init /\ [][Next]_vars

\* A hasher whose caller keeps the lengths of the updates it has made.
LogHeights == {1, 3}
LogLens == {0, 1, BYTES_PER_CHUNK, BYTES_PER_CHUNK + 1}

InitLog ==
    /\ \E h \in LogHeights, pack \in BOOLEAN : InitHasher(h, pack)
    /\ input \in 1..2
    /\ mc_chunks = <<>>
    /\ mc_height = 1
    /\ mc_result = NoMerkle
    /\ ZeroIdle
    /\ PureIdle
    /\ RestIdle
    /\ log = <<>>

UpdateLogged(n) ==
    /\ Len(log) < MaxLog
    /\ UpdateHasher(n)
    /\ log' = Append(log, n)

NextLog ==
    \/ \E n \in LogLens : UpdateLogged(n)
    \/ Finish

SpecLog == InitLog /\ [][NextLog]_vars

\* A hasher of any height up to MAX_TREE_DEPTH that is given empty updates
\* or single bytes, then finished.
InitEmpty ==
    /\ \E h \in 1..MAX_TREE_DEPTH, pack \in BOOLEAN : InitHasher(h, pack)
    /\ input = 2
    /\ mc_chunks = <<>>
    /\ mc_height = 1
    /\ mc_result = NoMerkle
    /\ ZeroIdle
    /\ PureIdle
    /\ RestIdle
    /\ log = <<>>

NextEmpty ==
    \/ \E n \in {0, 1} : UpdateLogged(n)
    \/ Finish

SpecEmpty == InitEmpty /\ [][NextEmpty]_vars

\* A direct call merkleize_chunks(mc_chunks, mc_height).
InitReduce ==
    /\ InitHasher(1, TRUE)
    /\ input = 1
    /\ mc_chunks \in ChunkLists
    /\ mc_height \in 1..MaxReduceHeight
    /\ mc_result = NoMerkle
    /\ ZeroIdle
    /\ PureIdle
    /\ RestIdle
    /\ log = <<>>

Merkleize ==
    /\ mc_result.status = "none"
    /\ mc_result' = merkleize_chunks(mc_chunks, mc_height)
    /\ UNCHANGED <<hasher_vars, caller_vars, mc_chunks, mc_height, other_vars, log>>

NextReduce == Merkleize

SpecReduce == InitReduce /\ [][NextReduce]_vars

\* Trees around and above MAX_TREE_DEPTH: either a hasher of such a height
\* is created, fed and finished, or merkleize_chunks is called directly with
\* such a height.
TallHeights == (MAX_TREE_DEPTH - 1)..(MAX_TREE_DEPTH + MaxOver)

InitTall ==
    /\ \/ /\ \E h \in TallHeights, pack \in BOOLEAN : InitHasher(h, pack)
          /\ input \in 1..MaxStream
          /\ mc_chunks = <<>>
          /\ mc_height = 1
          /\ mc_result = [NoMerkle EXCEPT !.status = "unused"]
       \/ /\ InitHasherIn(1, TRUE, "unused")
          /\ input = 1
          /\ mc_chunks \in ChunkLists
          /\ mc_height \in TallHeights
          /\ mc_result = NoMerkle
    /\ ZeroIdle
    /\ PureIdle
    /\ RestIdle
    /\ log = <<>>

NextTall ==
    \/ \E n \in UpdateLens(should_pack) : Update(n)
    \/ Finish
    \/ Merkleize

SpecTall == InitTall /\ [][NextTall]_vars

\* Two hashers alive at once, each fed its own stream; their calls are
\* interleaved in any order.  An entry of hs is one hasher: the struct, the
\* stream it reads, the lengths of the updates it has had, and what its
\* finish returned.
Hashers == 1..2
TwoHeights == {1, 3}
TwoLens == {1, BYTES_PER_CHUNK, BYTES_PER_CHUNK + 1}

\* Mutant of hs_update: the hashers write through to one shared state.
hs_update_shared(hs_, i, bytes) ==
    [j \in DOMAIN hs_ |-> [hs_[j] EXCEPT !.self = update(@, bytes)]]

\* hs[i].update(bytes): `&mut self` reaches the fields of hasher i only.
hs_update(hs_, i, bytes) ==
    [hs_ EXCEPT ![i].self = update(@, bytes)]

\* hs[i].finish(): `mut self` consumes hasher i only.
hs_finish(hs_, i) ==
    [hs_ EXCEPT ![i].result = finish(hs_[i].self), ![i].phase = "finished"]

InitTwo ==
    /\ InitHasher(1, TRUE)
    /\ input = 1
    /\ mc_chunks = <<>>
    /\ mc_height = 1
    /\ mc_result = NoMerkle
    /\ ZeroIdle
    /\ PureIdle
    /\ RaceIdle
    /\ StoreIdle
    /\ log = <<>>
    /\ \E h1 \in TwoHeights, h2 \in TwoHeights, p1 \in BOOLEAN, p2 \in BOOLEAN :
           hs = [i \in Hashers |->
                    [self |-> new(IF i = 1 THEN h1 ELSE h2, IF i = 1 THEN p1 ELSE p2),
                     input |-> i + 1, lens |-> <<>>, phase |-> "open",
                     result |-> NoResult]]

TwoFrame ==
    UNCHANGED <<hasher_vars, caller_vars, mc_vars, zh_pc, zh_height, zh_ret,
                zh_index, pure_vars, race_vars, store_vars, log>>

TwoUpdate(i, n) ==
    /\ hs[i].phase = "open"
    /\ Len(hs[i].lens) < MaxTwoCalls
    /\ hs' = [hs_update(hs, i, StreamSlice(hs[i].input, SumSeq(hs[i].lens), n))
                 EXCEPT ![i].lens = Append(@, n)]
    /\ UNCHANGED zero_hashes
    /\ TwoFrame

\* The first merkleize_chunks that needs a zero hash builds the shared,
\* read-only table.
TwoFinish(i) ==
    /\ hs[i].phase = "open"
    /\ hs' = hs_finish(hs, i)
    /\ zero_hashes' = IF hs'[i].result.zero_reads > 0 THEN Some(ZERO_HASHES)
                      ELSE zero_hashes
    /\ TwoFrame

NextTwo ==
    \E i \in Hashers :
        \/ \E n \in TwoLens : TwoUpdate(i, n)
        \/ TwoFinish(i)

SpecTwo == InitTwo /\ [][NextTwo]_vars

\* A ChunkStore driven directly: cs is the store, cs_op the last call made
\* on it with its arguments, what it returned and the store it found.
StoreValues == {ZERO_HASHES[1], DataDigest(1), DataDigest(2)}
StoreIndexes == 0..(MaxStore + 1)

InitStore ==
    /\ InitHasher(1, TRUE)
    /\ input = 1
    /\ mc_chunks = <<>>
    /\ mc_height = 1
    /\ mc_result = NoMerkle
    /\ ZeroIdle
    /\ PureIdle
    /\ RaceIdle
    /\ hs = <<>>
    /\ \E n \in 0..2 : cs = with_capacity(n)
    /\ cs_op = NoOp
    /\ log = <<>>

StoreFrame ==
    UNCHANGED <<hasher_vars, caller_vars, mc_vars, zero_vars, pure_vars,
                race_vars, hs, log>>

StoreOp(op, i, v, ok, out) ==
    [op |-> op, i |-> i, v |-> v, ok |-> ok, out |-> out, before |-> cs]

StoreSet(i, v) ==
    /\ LET r == store_set(cs, i, v)
       IN  /\ cs' = r.store
           /\ cs_op' = StoreOp("set", i, v, r.ok, <<>>)
    /\ StoreFrame

StorePush(v) ==
    /\ store_len(cs) < MaxStore
    /\ cs' = store_push(cs, v)
    /\ cs_op' = StoreOp("push", 0, v, TRUE, <<>>)
    /\ StoreFrame

StoreGetSlice(i) ==
    /\ LET r == get_slice(cs, i)
       IN  cs_op' = StoreOp("get_slice", i, <<>>, r.ok, r.v)
    /\ UNCHANGED cs
    /\ StoreFrame

StoreTruncate(n) ==
    /\ cs' = truncate(cs, n)
    /\ cs_op' = StoreOp("truncate", n, <<>>, TRUE, <<>>)
    /\ StoreFrame

NextStore ==
    \/ \E i \in StoreIndexes, v \in StoreValues : StoreSet(i, v)
    \/ \E v \in StoreValues : StorePush(v)
    \/ \E i \in StoreIndexes : StoreGetSlice(i)
    \/ \E n \in StoreIndexes : StoreTruncate(n)

SpecStore == InitStore /\ [][NextStore]_vars

\* Threads that call get_zero_hash concurrently, starting before the lazy
\* static has been built.
Threads == 1..MaxThreads
RaceHeights == {0, 1, MAX_TREE_DEPTH, MAX_TREE_DEPTH + 1}

InitRace ==
    /\ InitHasher(1, TRUE)
    /\ input = 1
    /\ mc_chunks = <<>>
    /\ mc_height = 1
    /\ mc_result = NoMerkle
    /\ ZeroIdle
    /\ PureIdle
    /\ once = "incomplete"
    /\ th = [t \in Threads |-> IdleThread]
    /\ builds = 0
    /\ hs = <<>>
    /\ StoreIdle
    /\ log = <<>>

RaceFrame ==
    UNCHANGED <<hasher_vars, caller_vars, mc_vars, zh_pc, zh_height, zh_ret,
                zh_index, pure_vars, hs, store_vars, log>>

\* Thread t calls get_zero_hash(h).
RaceCall(t, h) ==
    /\ th[t].pc \in {"idle", "returned"}
    /\ th' = [th EXCEPT ![t] = [IdleThread EXCEPT !.pc = "called", !.height = h]]
    /\ UNCHANGED <<zero_hashes, once, builds>>
    /\ RaceFrame

\* `if height <= MAX_TREE_DEPTH`: go on to the static, or panic.
RaceTest(t) ==
    /\ th[t].pc = "called"
    /\ LET r == get_zero_hash(th[t].height)
       IN  th' = IF r.panic # ""
                 THEN [th EXCEPT ![t].pc = "returned", ![t].ret = r]
                 ELSE [th EXCEPT ![t].pc = "deref"]
    /\ UNCHANGED <<zero_hashes, once, builds>>
    /\ RaceFrame

\* The dereference of ZERO_HASHES enters the Once.
RaceDeref(t) ==
    /\ th[t].pc = "deref"
    /\ LET d == call_once(once)
       IN  \/ /\ d = "run"
              /\ once' = "running"
              /\ builds' = builds + 1
              /\ th' = [th EXCEPT ![t].pc = "init", ![t].i = 0,
                            ![t].hashes = [j \in 0..MAX_TREE_DEPTH |-> Zeros(32)]]
           \/ /\ d = "wait"
              /\ th' = [th EXCEPT ![t].pc = "blocked", ![t].waited = TRUE]
              /\ UNCHANGED <<once, builds>>
           \/ /\ d = "skip"
              /\ th' = [th EXCEPT ![t].pc = "index"]
              /\ UNCHANGED <<once, builds>>
    /\ UNCHANGED zero_hashes
    /\ RaceFrame

\* One pass of the initializer's loop, on the thread's own vector.
RaceInitStep(t) ==
    /\ th[t].pc = "init"
    /\ th[t].i < MAX_TREE_DEPTH
    /\ th' = [th EXCEPT ![t].hashes = ZeroHashesStep(@, th[t].i), ![t].i = @ + 1]
    /\ UNCHANGED <<zero_hashes, once, builds>>
    /\ RaceFrame

\* The initializer returns `hashes`: the static holds it, the Once is done.
RaceInitDone(t) ==
    /\ th[t].pc = "init"
    /\ th[t].i >= MAX_TREE_DEPTH
    /\ zero_hashes' = Some(th[t].hashes)
    /\ once' = "complete"
    /\ th' = [th EXCEPT ![t].pc = "index", ![t].hashes = <<>>]
    /\ UNCHANGED builds
    /\ RaceFrame

\* A thread that waited in the Once goes on when the Once is done.
RaceWake(t) ==
    /\ th[t].pc = "blocked"
    /\ once = "complete"
    /\ th' = [th EXCEPT ![t].pc = "index"]
    /\ UNCHANGED <<zero_hashes, once, builds>>
    /\ RaceFrame

\* &ZERO_HASHES[height]
RaceIndex(t) ==
    /\ th[t].pc = "index"
    /\ th' = [th EXCEPT ![t].pc = "returned",
                  ![t].ret = [panic |-> "", v |-> zero_hashes.v[th[t].height]]]
    /\ UNCHANGED <<zero_hashes, once, builds>>
    /\ RaceFrame

NextRace ==
    \E t \in Threads :
        \/ \E h \in RaceHeights : RaceCall(t, h)
        \/ RaceTest(t)
        \/ RaceDeref(t)
        \/ RaceInitStep(t)
        \/ RaceInitDone(t)
        \/ RaceWake(t)
        \/ RaceIndex(t)

SpecRace == InitRace /\ [][NextRace]_vars

\* Calls of the crate's pure functions.  A call record holds the function
\* name and its arguments: n a count, k a packing factor (0 for NotPacked),
\* ty the implementing type, v the value, root a chunk, b a bool.
HeightCalls ==
    {[NoCall EXCEPT !.fn = "height_for_leaf_count", !.n = n] : n \in 0..MaxCount}
    \cup {[NoCall EXCEPT !.fn = "height_for_value_count", !.n = n, !.k = k] :
                n \in 0..MaxCount, k \in 0..HASHSIZE}

\* Values of the unsigned types: every u8, and digits drawn from the ends
\* and the middle of the digit range for the wider types.
Digits == {0, 1, 42, 255, 256, 4660, 32768, 65535}
FewDigits == {0, 1, 42, 65535}

Values(ty) ==
    CASE ty = "u8" -> {<<x>> : x \in 0..255}
      [] ty = "u16" -> {<<x>> : x \in Digits}
      [] ty = "u32" -> {<<x, y>> : x \in Digits, y \in Digits}
      [] ty \in {"u64", "usize"} ->
            {<<a, b, c, d>> : a \in FewDigits, b \in FewDigits,
                              c \in FewDigits, d \in FewDigits}

\* The length N of the byte-array types.
array_len(ty) == IF ty = "[u8; 4]" THEN 4 ELSE BYTES_PER_CHUNK

ByteArrays(n) ==
    {[k \in 1..n |-> c] : c \in {0, 1, 255}}
    \cup {[k \in 1..n |-> k]}
    \cup {[k \in 1..n |-> IF k = 1 THEN c ELSE 0] : c \in {7, 255}}
    \cup {[k \in 1..n |-> IF k = n THEN c ELSE 0] : c \in {7, 255}}

UIntTypes == {"u8", "u16", "u32", "u64", "usize"}
ArrayTypes == {"[u8; 4]", "[u8; 32]", "H256"}
Methods == {"tree_hash_root", "tree_hash_apply_root", "tree_hash_packing"}

TreeHashCalls ==
    UNION {{[NoCall EXCEPT !.fn = m, !.ty = ty, !.v = v] :
                v \in Values(ty), m \in Methods} : ty \in UIntTypes}
    \cup {[NoCall EXCEPT !.fn = m, !.ty = "bool", !.b = b] :
                b \in BOOLEAN, m \in Methods}
    \cup UNION {{[NoCall EXCEPT !.fn = m, !.ty = ty, !.v = v] :
                v \in ByteArrays(array_len(ty)), m \in Methods} : ty \in ArrayTypes}

Roots == {ZeroChunk, [k \in 1..BYTES_PER_CHUNK |-> 42], DataDigest(1),
          ZERO_HASHES[1], ZERO_HASHES[2]}

MixCalls ==
    {[NoCall EXCEPT !.fn = "mix_in_length", !.root = root, !.v = length] :
        root \in Roots, length \in Values("usize")}

PureCalls == HeightCalls \cup TreeHashCalls \cup MixCalls

InitPure ==
    /\ InitHasher(1, TRUE)
    /\ input = 1
    /\ mc_chunks = <<>>
    /\ mc_height = 1
    /\ mc_result = NoMerkle
    /\ ZeroIdle
    /\ call \in PureCalls
    /\ ret = NoRet
    /\ RestIdle
    /\ log = <<>>

Returns(r) ==
    /\ ~ret.done
    /\ ret' = [r EXCEPT !.done = TRUE]
    /\ UNCHANGED <<hasher_vars, caller_vars, mc_vars, zero_vars, call, new_vars, log>>

\* height_for_leaf_count(call.n)
HeightForLeafCount ==
    /\ call.fn = "height_for_leaf_count"
    /\ Returns([NoRet EXCEPT !.n = height_for_leaf_count(call.n)])

\* packing.height_for_value_count(call.n)
HeightForValueCount ==
    /\ call.fn = "height_for_value_count"
    /\ LET packing == IF call.k = 0 THEN NotPacked ELSE Packed(call.k)
       IN  Returns([NoRet EXCEPT !.n = height_for_value_count(packing, call.n)])

\* mix_in_length(call.root, call.v)
MixInLength ==
    /\ call.fn = "mix_in_length"
    /\ Returns([NoRet EXCEPT !.v = mix_in_length(call.root, call.v)])

\* The value a TreeHash method is called on.
CallSelf == IF call.ty = "bool" THEN call.b ELSE call.v

\* value.tree_hash_root()
TreeHashRoot ==
    /\ call.fn = "tree_hash_root"
    /\ Returns([NoRet EXCEPT !.v = tree_hash_root(call.ty, CallSelf)])

\* value.tree_hash_apply_root(f): ret.v is the slice f is called with.
TreeHashApplyRoot ==
    /\ call.fn = "tree_hash_apply_root"
    /\ Returns([NoRet EXCEPT !.v = tree_hash_apply_root(call.ty, CallSelf)])

\* T::tree_hash_packing()
TreeHashPacking ==
    /\ call.fn = "tree_hash_packing"
    /\ LET packing == tree_hash_packing(call.ty)
       IN  Returns([NoRet EXCEPT !.packed = packing.packed,
                                 !.n = packing.packing_factor])

NextPure ==
    \/ HeightForLeafCount
    \/ HeightForValueCount
    \/ MixInLength
    \/ TreeHashRoot
    \/ TreeHashApplyRoot
    \/ TreeHashPacking

SpecPure == InitPure /\ [][NextPure]_vars

\* Callers of get_zero_hash.  The lazy static ZERO_HASHES is built by the
\* first call that dereferences it.
InitZero ==
    /\ InitHasher(1, TRUE)
    /\ input = 1
    /\ mc_chunks = <<>>
    /\ mc_height = 1
    /\ mc_result = NoMerkle
    /\ ZeroIdle
    /\ PureIdle
    /\ RestIdle
    /\ log = <<>>

\* A caller asks for get_zero_hash(h).
ZeroHashCall(h) ==
    /\ zh_pc \in {"idle", "returned"}
    /\ zh_pc' = "called"
    /\ zh_height' = h
    /\ zh_ret' = NoZeroHash
    /\ zh_index' = -1
    /\ UNCHANGED <<hasher_vars, caller_vars, mc_vars, zero_hashes, pure_vars, new_vars, log>>

\* get_zero_hash runs: the height test, then &ZERO_HASHES[height].
ZeroHashReturn ==
    /\ zh_pc = "called"
    /\ LET r == get_zero_hash(zh_height)
       IN  /\ zh_ret' = r
           /\ zh_index' = IF r.panic = "" THEN zh_height ELSE -1
           /\ zero_hashes' = IF r.panic = "" /\ ~zero_hashes.some
                             THEN Some(ZERO_HASHES) ELSE zero_hashes
    /\ zh_pc' = "returned"
    /\ UNCHANGED <<hasher_vars, caller_vars, mc_vars, zh_height, pure_vars, new_vars, log>>

NextZero ==
    \/ \E h \in 0..(MAX_TREE_DEPTH + MaxOver) : ZeroHashCall(h)
    \/ ZeroHashReturn

SpecZero == InitZero /\ [][NextZero]_vars

\* ------------------------------------------------- reference definitions
\* The bytes the caller has fed so far, in order.
Fed == StreamSlice(input, 0, fed)

\* A byte stream zero-padded to whole chunks and cut into 32-byte leaves.
LeavesOf(bytes) ==
    LET n == (Len(bytes) + BYTES_PER_CHUNK - 1) \div BYTES_PER_CHUNK
        padded == resize(bytes, n * BYTES_PER_CHUNK)
    IN  [i \in 1..n |->
            SubSeq(padded, (i - 1) * BYTES_PER_CHUNK + 1, i * BYTES_PER_CHUNK)]

\* A list extended with `fill` to n entries.
PadList(list, n, fill) ==
    [i \in 1..Max(n, Len(list)) |-> IF i <= Len(list) THEN list[i] ELSE fill]

\* The naive reduction of a list of 2^k nodes: hash adjacent pairs, level
\* by level, until one node remains.
RECURSIVE NaiveRoot(_)
NaiveRoot(list) ==
    IF Len(list) <= 1 THEN list[1]
    ELSE NaiveRoot([i \in 1..(Len(list) \div 2) |->
                        hash_concat(list[2 * i - 1], list[2 * i])])

\* The root of the stream's leaves in a tree of height h.
ReferenceRoot(bytes, h) == NaiveRoot(PadList(LeavesOf(bytes), Pow2(h - 1), ZeroChunk))

IsPowerOfTwo(n) == n >= 1 /\ next_power_of_two(n) = n

\* Two results of finish agree: both panic, or both return the same root.
SameOutcome(a, b) == a.status = b.status /\ a.root = b.root /\ a.panic = b.panic

Finished == phase = "finished"
Reduced == mc_result.status # "none"
NChunks == Len(mc_chunks)

\* ----------------------------------------------------------------- C1
\* C1: a Packed hasher of height h fed at most 32 * 2^(h-1) bytes, in any
\* slices, returns the root of the reference tree: the zero-padded stream cut
\* into 32-byte leaves, the leaf list padded with all-zero chunks to
\* 2^(h-1) leaves, adjacent pairs hashed level by level.
C1_PackedRootIsReference ==
    (Finished /\ should_pack /\ fed <= BYTES_PER_CHUNK * Pow2(height - 1))
        => (result.status = "root" /\ result.root = ReferenceRoot(Fed, height))

C1_Witness ==
    /\ Finished /\ should_pack /\ input = 2 /\ calls >= 2
    /\ height = 4 /\ fed > 4 * BYTES_PER_CHUNK
    /\ result.status = "root" /\ result.zero_reads > 0
    /\ result.root = ReferenceRoot(Fed, height)

\* ----------------------------------------------------------------- C2
\* C2 (as amended): for a Packed hasher of any height, whatever the slices
\* the bytes were fed in, finish gives what it gives when the same bytes
\* are fed by a single update call.
C2_PackedStreaming ==
    (Finished /\ should_pack)
        => SameOutcome(result, finish(update(new(height, should_pack), Fed)))

\* C2 as stated: the same for every packing policy.
C2_Original ==
    Finished => SameOutcome(result, finish(update(new(height, should_pack), Fed)))

C2_Witness ==
    /\ Finished /\ should_pack /\ input = 2 /\ calls >= 2
    /\ height = 3 /\ fed > 2 * BYTES_PER_CHUNK /\ fed % BYTES_PER_CHUNK # 0
    /\ result.status = "root"

\* ----------------------------------------------------------------- C3
\* C3 (as amended): for a store of n chunks, n a power of two,
\* merkleize_chunks(chunks, height_for_leaf_count(n) + 1) returns the root of
\* the naive pairwise reduction of the n chunks; with
\* height_for_leaf_count(n) itself it does so for n = 1 only and panics on
\* "Exactly one chunk should remain" for n = 2, 4, 8.
C3_PowerOfTwoChunks ==
    (Reduced /\ IsPowerOfTwo(NChunks))
        => /\ mc_height = height_for_leaf_count(NChunks) + 1
                => (mc_result.status = "root" /\ mc_result.root = NaiveRoot(mc_chunks)
                    /\ mc_result.zero_reads = 0)
           /\ (mc_height = height_for_leaf_count(NChunks) /\ NChunks = 1)
                => (mc_result.status = "root" /\ mc_result.root = NaiveRoot(mc_chunks))
           /\ (mc_height = height_for_leaf_count(NChunks) /\ NChunks > 1)
                => (mc_result.status = "panic"
                    /\ mc_result.panic = "Exactly one chunk should remain")

\* C3 as stated: the height is height_for_leaf_count(n).
C3_Original ==
    (Reduced /\ IsPowerOfTwo(NChunks) /\ mc_height = height_for_leaf_count(NChunks))
        => (mc_result.status = "root" /\ mc_result.root = NaiveRoot(mc_chunks))

C3_Witness ==
    /\ Reduced /\ NChunks = 8 /\ mc_height = height_for_leaf_count(8) + 1
    /\ mc_result.status = "root" /\ mc_result.hashes = 7
    /\ \A i \in 1..8 : mc_chunks[i] = DataDigest(i)

\* ----------------------------------------------------------------- C4
\* C4 (as amended): for a store of n chunks, n not a power of two,
\* merkleize_chunks(chunks, height_for_leaf_count(n) + 1) returns the root of
\* the naive reduction of the chunks padded to the next power of two with
\* ZERO_HASHES[1], the digest of two all-zero chunks.
C4_PaddedChunks ==
    (Reduced /\ NChunks >= 1 /\ ~IsPowerOfTwo(NChunks)
        /\ mc_height = height_for_leaf_count(NChunks) + 1)
        => /\ mc_result.status = "root"
           /\ mc_result.root =
                NaiveRoot(PadList(mc_chunks, next_power_of_two(NChunks), ZERO_HASHES[1]))

\* C4 as stated: the height is height_for_leaf_count(n) and the padding is
\* the all-zero chunk.
C4_Original ==
    (Reduced /\ NChunks >= 1 /\ ~IsPowerOfTwo(NChunks)
        /\ mc_height = height_for_leaf_count(NChunks))
        => /\ mc_result.status = "root"
           /\ mc_result.root =
                NaiveRoot(PadList(mc_chunks, next_power_of_two(NChunks), ZeroChunk))

C4_Witness ==
    /\ Reduced /\ NChunks = 5 /\ mc_height = height_for_leaf_count(5) + 1
    /\ mc_result.status = "root" /\ mc_result.zero_reads = 2
    /\ \A i \in 1..5 : mc_chunks[i] = DataDigest(i)

\* ----------------------------------------------------------------- C5
\* C5 (as amended): for a non-empty store of n chunks and a height h with
\* n <= 2^(h-2) (n = 1 when h = 1), exactly one chunk remains when the
\* reduction loop ends, and the final assertion holds.
C5_OneChunkRemains ==
    (Reduced /\ NChunks >= 1 /\ NChunks <= Pow2(Max(mc_height - 2, 0)))
        => (mc_result.remaining = 1 /\ mc_result.status = "root")

\* C5 as stated: for every n <= 2^(h-1).
C5_Original ==
    (Reduced /\ NChunks >= 1 /\ NChunks <= Pow2(mc_height - 1))
        => (mc_result.remaining = 1 /\ mc_result.status = "root")

C5_Witness ==
    /\ Reduced /\ NChunks = 3 /\ mc_height = 4
    /\ mc_result.remaining = 1 /\ mc_result.rounds = 2

\* ----------------------------------------------------------------- C6
\* C6: on an empty store merkleize_chunks returns the all-zero chunk for
\* every height, reads no entry of ZERO_HASHES and computes no digest.
C6_EmptyStore ==
    (Reduced /\ NChunks = 0)
        => /\ mc_result.status = "root"
           /\ mc_result.root = Zeros(BYTES_PER_CHUNK)
           /\ mc_result.zero_reads = 0
           /\ mc_result.hashes = 0
           /\ mc_result.rounds = 0

C6_Witness ==
    /\ Reduced /\ NChunks = 0 /\ mc_height = MaxReduceHeight
    /\ mc_result.root = ZeroChunk

\* ----------------------------------------------------------------- C7
\* C7: on a store of exactly one chunk c and height 1, merkleize_chunks
\* returns c unchanged, runs no round and computes no digest.
C7_SingleChunkHeightOne ==
    (Reduced /\ NChunks = 1 /\ mc_height = 1)
        => /\ mc_result.status = "root"
           /\ mc_result.root = mc_chunks[1]
           /\ mc_result.rounds = 0
           /\ mc_result.hashes = 0

C7_Witness ==
    /\ Reduced /\ NChunks = 1 /\ mc_height = 1
    /\ mc_chunks[1] = DataDigest(1) /\ mc_result.root = DataDigest(1)

\* ----------------------------------------------------------------- C8
\* C8: whenever finish returns, by the early return or through
\* merkleize_chunks, the root is exactly 32 bytes long.
C8_RootIsOneChunk ==
    (Finished /\ result.status = "root") => ByteLen(result.root) = BYTES_PER_CHUNK

C8_Witness ==
    /\ Finished /\ result.status = "root" /\ ~result.fast /\ ~should_pack
    /\ height = 3 /\ store_len(result.store_in) = 2
    /\ ByteLen(result.root) = BYTES_PER_CHUNK

\* ----------------------------------------------------------------- C9
\* C9: a hasher of height 1 whose first_chunk is still Some at finish was fed
\* at most 32 bytes, and finish returns those bytes, in order, zero-padded on
\* the right to 32 bytes, computing no digest itself (a Packed hasher has
\* computed none at all).
C9_FastPathRoot ==
    (Finished /\ height = 1 /\ first_chunk.some)
        => /\ result.fast
           /\ result.status = "root"
           /\ fed <= BYTES_PER_CHUNK
           /\ result.root = Fed \o Zeros(BYTES_PER_CHUNK - fed)
           /\ result.finish_hashes = 0
           /\ (should_pack => hashes = 0)

\* Four packed u64 values 1, 2, 3, 4, fed by more than one update call.
C9_Witness ==
    /\ Finished /\ height = 1 /\ first_chunk.some /\ should_pack
    /\ input = 3 /\ fed = BYTES_PER_CHUNK /\ calls >= 2
    /\ result.root = <<1, 0, 0, 0, 0, 0, 0, 0, 2, 0, 0, 0, 0, 0, 0, 0,
                       3, 0, 0, 0, 0, 0, 0, 0, 4, 0, 0, 0, 0, 0, 0, 0>>

\* ---------------------------------------------------------------- C10
\* C10 (as amended): when finish takes the early return, the general path
\* on the same hasher would never give the fast-path root: it panics or
\* returns a digest, and for a Packed hasher (or after at most one non-empty
\* update) it returns hash(fast-path root ++ all-zero chunk), the root of
\* the two-leaf tree whose left leaf is the fast-path root.
C10_FastPathVersusGeneral ==
    (Finished /\ result.fast)
        => LET general == finish_general(Self)
           IN  /\ ~SameOutcome(result, general)
               /\ general.status = "root" => general.root # result.root
               /\ (should_pack \/ calls <= 1)
                    => (general.status = "root"
                        /\ general.root = hash_concat(result.root, ZeroChunk))

\* C10 as stated: the general path would return the fast-path root.
C10_Original ==
    (Finished /\ result.fast) => SameOutcome(result, finish_general(Self))

C10_Witness ==
    /\ Finished /\ result.fast /\ should_pack /\ input = 2 /\ calls >= 2
    /\ fed = BYTES_PER_CHUNK
    /\ finish_general(Self).root = hash_concat(result.root, ZeroChunk)

\* ------------------------------------------------------------------ C11
\* C11: once built, the zero-hash table has exactly 49 entries, indexed
\* 0..MAX_TREE_DEPTH; entry 0 is the all-zero chunk and every entry i + 1
\* (0 <= i < 48) is the hash of entry i concatenated with itself.  The low
\* entries are the roots of the perfect trees of 2^i zero chunks.
C11_ZeroHashTable ==
    zero_hashes.some =>
        LET table == zero_hashes.v
        IN  /\ DOMAIN table = 0..MAX_TREE_DEPTH
            /\ Cardinality(DOMAIN table) = 49
            /\ table[0] = Zeros(BYTES_PER_CHUNK)
            /\ \A i \in 0..(MAX_TREE_DEPTH - 1) :
                    table[i + 1] = hash_concat(table[i], table[i])
            /\ \A i \in 0..MaxHeight :
                    table[i] = NaiveRoot(PadList(<<>>, Pow2(i), ZeroChunk))

C11_Witness ==
    /\ zero_hashes.some
    /\ zh_pc = "returned"
    /\ zh_height = MAX_TREE_DEPTH
    /\ zh_ret.v = zero_hashes.v[MAX_TREE_DEPTH]

\* ------------------------------------------------------------------ C12
\* C12: get_zero_hash returns the table entry of the height for every
\* height <= 48 and panics for every height > 48; an index it reads is
\* always inside the table.
C12_GetZeroHash ==
    zh_pc = "returned" =>
        /\ zh_height <= 48 =>
                /\ zh_ret.panic = ""
                /\ zero_hashes.some
                /\ zh_index = zh_height
                /\ zh_ret.v = zero_hashes.v[zh_height]
        /\ zh_height > 48 =>
                /\ zh_ret.panic # ""
                /\ zh_ret.v = <<>>
                /\ zh_index = -1
        /\ zh_index # -1 =>
                /\ zero_hashes.some
                /\ zh_index \in DOMAIN zero_hashes.v

C12_Witness ==
    /\ zh_pc = "returned"
    /\ zh_height = MAX_TREE_DEPTH + 1
    /\ zh_ret.panic # ""
    /\ zero_hashes.some

\* ------------------------------------------------------------------ C13
\* C13: a tree height above 48 is fatal: a hasher created with height > 48
\* and finished, or merkleize_chunks called with height > 48 on a non-empty
\* store, never returns a root but halts with a panic.
C13_Original ==
    /\ (phase = "finished" /\ height > 48) => result.status = "panic"
    /\ (mc_result.status \in {"root", "panic"} /\ mc_height > 48 /\ NChunks >= 1)
            => mc_result.status = "panic"

\* ------------------------------------------------------------------ C14
\* The smallest height h >= 1 whose perfect tree holds n leaves.
MinHeight(n) == CHOOSE h \in 1..(n + 1) :
    /\ Pow2(h - 1) >= n
    /\ \A g \in 1..(h - 1) : Pow2(g - 1) < n

\* C14: height_for_leaf_count(n) is the smallest h >= 1 with 2^(h-1) >= n,
\* for every n in 0..MaxCount; it is 1 for n = 0 and n = 1, 4 for n = 8 and
\* 5 for n = 9.
C14_HeightForLeafCount ==
    (ret.done /\ call.fn = "height_for_leaf_count") =>
        /\ ret.n >= 1
        /\ Pow2(ret.n - 1) >= call.n
        /\ \A g \in 1..(ret.n - 1) : Pow2(g - 1) < call.n
        /\ call.n \in {0, 1} => ret.n = 1
        /\ call.n = 8 => ret.n = 4
        /\ call.n = 9 => ret.n = 5

C14_Witness ==
    /\ ret.done
    /\ call.fn = "height_for_leaf_count"
    /\ call.n = 9
    /\ ret.n = 5

\* ------------------------------------------------------------------ C15
\* ceil(a / b) for b >= 1.
CeilDiv(a, b) == CHOOSE q \in 0..a : q * b >= a /\ (q = 0 \/ (q - 1) * b < a)

\* C15: height_for_value_count is height_for_leaf_count of
\* ceil(value_count / packing_factor) under Packed (packing_factor >= 1) and
\* of value_count under NotPacked, for every value_count in 0..MaxCount; a
\* value count of 0 gives height 1.
C15_HeightForValueCount ==
    (ret.done /\ call.fn = "height_for_value_count") =>
        LET leaves == IF call.k = 0 THEN call.n ELSE CeilDiv(call.n, call.k)
        IN  /\ ret.n = height_for_leaf_count(leaves)
            /\ ret.n = MinHeight(leaves)
            /\ call.n = 0 => ret.n = 1

C15_Witness ==
    /\ ret.done
    /\ call.fn = "height_for_value_count"
    /\ call.k = 4
    /\ call.n = 9
    /\ ret.n = 3

\* ------------------------------------------------------------------ C16
\* SHA-256 of a preimage that may hold digests as well as raw bytes.
Sha256(preimage) ==
    IF ByteLen(preimage) = 2 * BYTES_PER_CHUNK
    THEN LET e == ChunkEnd(preimage, 1)
         IN  hash_concat(SubSeq(preimage, 1, e - 1), SubSeq(preimage, e, Len(preimage)))
    ELSE <<-3, Len(preimage)>> \o preimage

\* The integer a little-endian byte string encodes, as base-65536 digits.
FromLeBytes(bytes) ==
    [j \in 1..Max(1, Len(bytes) \div 2) |->
        bytes[2 * j - 1] + (IF 2 * j <= Len(bytes) THEN 256 * bytes[2 * j] ELSE 0)]

\* Base-256 digit j (from 0) of an integer held as base-65536 digits.
Digit256(v, j) ==
    IF j >= 2 * Len(v) THEN 0
    ELSE IF j % 2 = 0 THEN v[(j \div 2) + 1] % 256 ELSE v[(j \div 2) + 1] \div 256

\* The chunk L of a length: its little-endian bytes zero-padded to 32.
LengthChunk(length) == [k \in 1..BYTES_PER_CHUNK |-> Digit256(length, k - 1)]

\* C16: mix_in_length(root, length) is hash(root ++ L) where L is the
\* little-endian encoding of length zero-padded to 32 bytes; for length 0
\* it is hash(root ++ zero chunk).
C16_MixInLength ==
    (ret.done /\ call.fn = "mix_in_length") =>
        LET L == LengthChunk(call.v)
        IN  /\ FromLeBytes(SubSeq(L, 1, 8)) = call.v
            /\ \A k \in 9..BYTES_PER_CHUNK : L[k] = 0
            /\ ret.v = Sha256(call.root \o L)
            /\ call.v = <<0, 0, 0, 0>> => ret.v = Sha256(call.root \o ZeroChunk)
            /\ (call.v = <<42, 0, 0, 0>> /\ call.root = [k \in 1..BYTES_PER_CHUNK |-> 42])
                    => ret.v = hash(call.root \o <<42>> \o Zeros(31))

C16_Witness ==
    /\ ret.done
    /\ call.fn = "mix_in_length"
    /\ call.v = <<0, 0, 0, 0>>
    /\ call.root = DataDigest(1)
    /\ ret.v = hash_concat(DataDigest(1), ZeroChunk)

\* ------------------------------------------------------------------ C17
\* C17: for every unsigned integer type and value v, tree_hash_root(v) is
\* 32 bytes: the first byte_width bytes decode little-endian to v and the
\* remaining bytes are zero.
C17_UIntRoot ==
    (ret.done /\ call.fn = "tree_hash_root" /\ call.ty \in UIntTypes) =>
        LET byte_width == bit_size(call.ty) \div 8
        IN  /\ Len(ret.v) = 32
            /\ \A k \in 1..32 : ret.v[k] \in 0..255
            /\ FromLeBytes(SubSeq(ret.v, 1, byte_width)) = call.v
            /\ \A k \in (byte_width + 1)..32 : ret.v[k] = 0

C17_Witness ==
    /\ ret.done
    /\ call.fn = "tree_hash_root"
    /\ call.ty = "u64"
    /\ call.v = <<65535, 65535, 65535, 65535>>
    /\ ret.v = [k \in 1..32 |-> IF k <= 8 THEN 255 ELSE 0]

\* ------------------------------------------------------------------ C18
\* C18: the root of true is the root of the u8 1 (0x01 then 31 zero bytes),
\* the root of false is the zero chunk, and the bytes a bool streams through
\* tree_hash_apply_root are those the same u8 streams.
C18_Bool ==
    (ret.done /\ call.ty = "bool") =>
        LET u == IF call.b THEN <<1>> ELSE <<0>>
        IN  /\ call.fn = "tree_hash_root" =>
                /\ ret.v = tree_hash_root("u8", u)
                /\ call.b => ret.v = <<1>> \o Zeros(31)
                /\ ~call.b => ret.v = ZeroChunk
            /\ call.fn = "tree_hash_apply_root" =>
                /\ ret.v = tree_hash_apply_root("u8", u)
                /\ ret.v = u

C18_Witness ==
    /\ ret.done
    /\ call.ty = "bool"
    /\ call.fn = "tree_hash_root"
    /\ call.b
    /\ ret.v[1] = 1

\* ------------------------------------------------------------------ C19
\* The packing factor the claim gives each type.
ClaimedFactor(ty) ==
    CASE ty \in {"u8", "bool"} -> 32
      [] ty = "u16" -> 16
      [] ty = "u32" -> 8
      [] ty \in {"u64", "usize"} -> 4

\* C19: every unsigned integer type declares Packed with packing factor
\* 32 / byte_width (u8 32, u16 16, u32 8, u64 4), bool declares what u8
\* declares, and the number of bytes a value streams times its packing
\* factor is 32.
C19_PackingFactor ==
    (ret.done /\ call.ty \in UIntTypes \cup {"bool"}) =>
        /\ call.fn = "tree_hash_packing" =>
                /\ ret.packed
                /\ ret.n = ClaimedFactor(call.ty)
                /\ call.ty # "bool" => ret.n * (bit_size(call.ty) \div 8) = 32
                /\ call.ty = "bool" => ret.n = tree_hash_packing("u8").packing_factor
        /\ call.fn = "tree_hash_apply_root" =>
                Len(ret.v) * tree_hash_packing(call.ty).packing_factor = 32

C19_Witness ==
    /\ ret.done
    /\ call.ty = "u16"
    /\ call.fn = "tree_hash_packing"
    /\ ret.packed
    /\ ret.n = 16

\* ------------------------------------------------------------------ C20
\* C20: [u8; 4], [u8; 32] and H256 declare NotPacked; their root is their
\* bytes unchanged, zero-padded on the right to 32 bytes when shorter, and
\* is always exactly 32 bytes long.
C20_ByteArrays ==
    (ret.done /\ call.ty \in ArrayTypes) =>
        /\ call.fn = "tree_hash_packing" => ~ret.packed
        /\ call.fn = "tree_hash_root" =>
                /\ Len(ret.v) = 32
                /\ ByteLen(ret.v) = 32
                /\ SubSeq(ret.v, 1, Len(call.v)) = call.v
                /\ \A k \in (Len(call.v) + 1)..32 : ret.v[k] = 0

C20_Witness ==
    /\ ret.done
    /\ call.ty = "[u8; 4]"
    /\ call.fn = "tree_hash_root"
    /\ call.v = <<1, 2, 3, 4>>
    /\ ret.v = <<1, 2, 3, 4>> \o Zeros(28)

\* ------------------------------------------------------------------ C21
\* C21: however the threads race on the first access, the initializer of
\* the zero-hash table is entered at most once, at most one unfinished
\* table exists and it is private to the thread building it, the static
\* holds nothing until it holds the fully built table, and every read by
\* every thread returns the entry of that table.
C21_BuiltOnce ==
    /\ builds <= 1
    /\ Cardinality({t \in DOMAIN th : th[t].pc = "init"}) <= 1
    /\ zero_hashes.some <=> once = "complete"
    /\ zero_hashes.some => zero_hashes.v = ZERO_HASHES
    /\ \A t \in DOMAIN th :
            /\ th[t].pc = "index" => zero_hashes.some
            /\ (th[t].pc = "returned" /\ th[t].ret.panic = "")
                    => th[t].ret.v = ZERO_HASHES[th[t].height]

C21_Witness ==
    /\ builds = 1
    /\ \A t \in DOMAIN th : th[t].pc = "returned" /\ th[t].ret.panic = ""
    /\ \E t \in DOMAIN th : th[t].waited /\ th[t].ret.v = ZERO_HASHES[MAX_TREE_DEPTH]
    /\ \E t \in DOMAIN th : ~th[t].waited /\ th[t].ret.v = ZeroChunk

\* ------------------------------------------------------------------ C22
\* The hasher that was created like `first` and then given, alone, the
\* updates of lengths lens from stream id.
RECURSIVE SoloRun(_, _, _, _)
SoloRun(first, id, lens, k) ==
    IF k = 0 THEN first
    ELSE update(SoloRun(first, id, lens, k - 1),
                StreamSlice(id, SumSeq(SubSeq(lens, 1, k - 1)), lens[k]))

SoloOf(h) == SoloRun(new(h.self.height, h.self.should_pack), h.input, h.lens, Len(h.lens))

\* C22: with the calls of two hashers interleaved in any order, each
\* hasher's state is the state of the same hasher run alone on its own
\* updates and its finish returns what the solo run returns; and a step that
\* changes one hasher leaves every field of the other as it was.
C22_Independent ==
    /\ [](\A i \in DOMAIN hs :
            /\ hs[i].self = SoloOf(hs[i])
            /\ hs[i].phase = "open" => hs[i].result = NoResult
            /\ hs[i].phase = "finished" => hs[i].result = finish(SoloOf(hs[i])))
    /\ [][\A i \in DOMAIN hs : hs'[i] # hs[i] =>
             \A j \in DOMAIN hs \ {i} : hs'[j] = hs[j]]_vars

C22_Witness ==
    /\ hs # <<>>
    /\ \A i \in DOMAIN hs :
           /\ hs[i].phase = "finished" /\ hs[i].result.status = "root"
           /\ Len(hs[i].lens) = MaxTwoCalls
           /\ ~hs[i].result.fast
    /\ hs[1].self.chunks # hs[2].self.chunks
    /\ hs[1].result.root # hs[2].result.root

\* ------------------------------------------------------------------ C23
\* C23: a hasher is created, updated any number of times and finished
\* once.  While it is open nothing has been returned; every call is made on
\* an open hasher, so after finish there is no further update or finish;
\* and the only step that yields a root is finish.
C23_Lifecycle ==
    /\ [](phase = "open" => result.status = "none")
    /\ [](phase = "finished" => result.status \in {"root", "panic"})
    /\ [][/\ phase = "open"
          /\ result'.status = "root" => (phase' = "finished" /\ result' = finish(Self))
          /\ phase' = "open" => (result' = result /\ fed' >= fed)]_vars

C23_Witness ==
    /\ phase = "finished"
    /\ result.status = "root"
    /\ ~result.fast
    /\ calls = MaxCalls
    /\ fed > 2 * BYTES_PER_CHUNK

\* ------------------------------------------------------------------ C24
\* The chunks of store `a` at the code's indices below n are those of `b`.
SameBelow(a, b, n) == \A j \in 1..n : a[j] = b[j]

\* C24: on a store of len chunks, set(i, v) with i >= len returns Err and
\* leaves the store as it was, and with i < len returns Ok and overwrites
\* index i alone; get_slice(i) returns Err exactly when i >= len, else chunk
\* i, and changes nothing; push appends the value at index len;
\* truncate(n) drops exactly the chunks at indices >= n.
C24_ChunkStore ==
    LET before == cs_op.before
        len == Len(before)
        i == cs_op.i
    IN  /\ cs_op.op = "set" =>
              IF i >= len
              THEN ~cs_op.ok /\ cs = before
              ELSE /\ cs_op.ok
                   /\ Len(cs) = len
                   /\ cs[i + 1] = cs_op.v
                   /\ \A j \in 1..len : j # i + 1 => cs[j] = before[j]
        /\ cs_op.op = "get_slice" =>
              /\ cs = before
              /\ cs_op.ok <=> i < len
              /\ cs_op.ok => cs_op.out = before[i + 1]
        /\ cs_op.op = "push" =>
              /\ Len(cs) = len + 1
              /\ cs[len + 1] = cs_op.v
              /\ SameBelow(cs, before, len)
        /\ cs_op.op = "truncate" =>
              /\ Len(cs) = Min(i, len)
              /\ SameBelow(cs, before, Len(cs))

C24_Witness ==
    /\ cs_op.op = "set"
    /\ ~cs_op.ok
    /\ cs_op.i = Len(cs)
    /\ Len(cs) = 3
    /\ cs[1] # cs[2]

\* ------------------------------------------------------------------ C25
\* Bytes that n bytes handed to update add to the buffer: under NotPacked
\* every slice of up to 32 bytes is padded to 32.
BufferedBy(pack, n) ==
    IF pack THEN n ELSE BYTES_PER_CHUNK * ((n + BYTES_PER_CHUNK - 1) \div BYTES_PER_CHUNK)

\* What the next update of n bytes does to the hasher of this state.
NextUpdate(n) == update(Self, StreamSlice(input, fed, n))

\* C25: whenever update has returned the buffer holds fewer than 64 bytes;
\* and in every update that can follow (one of the caller's, or the padding
\* update that finish makes) the buffer never holds more than 64 bytes, is
\* flushed only when it holds exactly 64 and every time it does, no slice
\* longer than 32 bytes reaches update_maybe_padded, and nothing panics.
C25_BufferBound ==
    /\ context_size < BYTES_PER_CHUNK * 2
    /\ phase = "open" =>
          \A n \in UpdateLens(should_pack) \cup {BYTES_PER_CHUNK * 2 - context_size} :
              LET s == NextUpdate(n)
              IN  /\ s.panic = ""
                  /\ s.context_size < BYTES_PER_CHUNK * 2
                  /\ s.peak <= BYTES_PER_CHUNK * 2
                  /\ s.widest <= BYTES_PER_CHUNK
                  /\ s.flushed_at \subseteq {BYTES_PER_CHUNK * 2}
                  /\ store_len(s.chunks) - store_len(chunks)
                        = (context_size + BufferedBy(should_pack, n))
                              \div (BYTES_PER_CHUNK * 2)

C25_Witness ==
    /\ phase = "open"
    /\ should_pack
    /\ calls = MaxCalls
    /\ context_size = BYTES_PER_CHUNK + 1
    /\ store_len(chunks) >= 1
    /\ NextUpdate(BYTES_PER_CHUNK).widest = BYTES_PER_CHUNK - 1
    /\ NextUpdate(BYTES_PER_CHUNK).peak = BYTES_PER_CHUNK * 2
    /\ NextUpdate(BYTES_PER_CHUNK).flushed_at = {BYTES_PER_CHUNK * 2}

\* ------------------------------------------------------------------ C26
\* The slices the logged updates carried, the empty ones left out.
RECURSIVE LoggedSlices(_)
LoggedSlices(k) ==
    IF k = 0 THEN <<>>
    ELSE LET rest == LoggedSlices(k - 1)
         IN  IF log[k] = 0 THEN rest
             ELSE Append(rest, StreamSlice(input, SumSeq(SubSeq(log, 1, k - 1)), log[k]))

\* One leaf per slice: the slice zero-padded to 32 bytes.
LoggedLeaves == [j \in 1..Len(LoggedSlices(Len(log))) |->
                    resize(LoggedSlices(Len(log))[j], BYTES_PER_CHUNK)]

\* The flushed pairs and the open buffer that hold the leaves q.
PairsOf(q) == [i \in 1..(Len(q) \div 2) |-> ContextFinish(q[2 * i - 1] \o q[2 * i])]
OddLeaf(q) == IF Len(q) % 2 = 1 THEN q[Len(q)] ELSE <<>>

\* C26: under NotPacked, after updates of at most 32 bytes each, every
\* non-empty update has contributed exactly one leaf, its bytes zero-padded
\* to 32, and an empty update none: the leaves in the flushed pairs and the
\* buffer are the padded slices in order, as many as there were non-empty
\* updates; and when they fit the tree the root is the root over them.
C26_LeafPerUpdate ==
    (~should_pack /\ \A k \in DOMAIN log : log[k] <= BYTES_PER_CHUNK) =>
        /\ 2 * store_len(chunks) + context_size \div BYTES_PER_CHUNK = Len(LoggedLeaves)
        /\ context_size % BYTES_PER_CHUNK = 0
        /\ chunks = PairsOf(LoggedLeaves)
        /\ context = OddLeaf(LoggedLeaves)
        /\ (phase = "finished" /\ Len(LoggedLeaves) <= Pow2(height - 1)) =>
              /\ result.status = "root"
              /\ result.root = NaiveRoot(PadList(LoggedLeaves, Pow2(height - 1), ZeroChunk))

C26_Witness ==
    /\ ~should_pack
    /\ log = <<1, 0, BYTES_PER_CHUNK>>
    /\ input = 2
    /\ height = 3
    /\ phase = "finished"
    /\ result.status = "root"
    /\ Len(LoggedLeaves) = 2
    /\ LoggedLeaves[1] # LoggedLeaves[2]

\* ------------------------------------------------------------------ C27
\* C27: once the fast-path buffer has been given up it stays given up
\* through every later update, empty ones included, and through finish.
C27_DeactivationPermanent ==
    [][~first_chunk.some => ~first_chunk'.some]_vars

C27_Witness ==
    /\ log = <<BYTES_PER_CHUNK + 1, 0, 1>>
    /\ ~first_chunk.some
    /\ phase = "finished"

\* ------------------------------------------------------------------ C28
\* C28: after any sequence of updates the fast-path buffer is active
\* exactly when at most 32 bytes have been fed in total, and while it is
\* active it holds all the bytes fed, in order.
C28_FirstChunk ==
    phase = "open" =>
        /\ first_chunk.some <=> fed <= BYTES_PER_CHUNK
        /\ first_chunk.some => first_chunk.v = Fed
        /\ ~first_chunk.some => first_chunk = None

C28_Witness ==
    /\ phase = "open"
    /\ first_chunk.some
    /\ calls = MaxCalls
    /\ input = 2
    /\ fed = BYTES_PER_CHUNK
    /\ first_chunk.v = [j \in 1..BYTES_PER_CHUNK |-> j]

\* ------------------------------------------------------------------ C29
\* C29: when finish, on its general path, calls merkleize_chunks, the
\* buffer is empty and the store holds at least one chunk.  A partly filled
\* buffer has been zero-padded to exactly 64 bytes and flushed as one more
\* chunk; a hasher that was never fed has the one chunk of 64 zero bytes;
\* an empty buffer behind existing chunks adds no chunk.
C29_FinishPadding ==
    (Finished /\ ~result.fast) =>
        /\ result.context_size_in = 0
        /\ store_len(result.store_in) >= 1
        /\ context_size > 0 =>
              result.store_in =
                  store_push(chunks,
                      ContextFinish(context \o Zeros(BYTES_PER_CHUNK * 2 - context_size)))
        /\ (context_size = 0 /\ store_len(chunks) = 0) =>
              result.store_in = <<ContextFinish(Zeros(BYTES_PER_CHUNK * 2))>>
        /\ (context_size = 0 /\ store_len(chunks) > 0) =>
              result.store_in = chunks

C29_Witness ==
    /\ Finished /\ ~result.fast
    /\ should_pack
    /\ input = 2
    /\ context_size = BYTES_PER_CHUNK + 1
    /\ store_len(chunks) = 1
    /\ store_len(result.store_in) = 2
    /\ result.status = "root"

\* ------------------------------------------------------------------ C30
\* The parents of the n chunks of `store`, which stand at level L: parent i
\* is the hash of children 2i and 2i+1, and the last child of an odd n is
\* paired with ZERO_HASHES[L].
RoundRef(store, L) ==
    [i \in 1..((Len(store) + 1) \div 2) |->
        hash_concat(store[2 * i - 1],
                    IF 2 * i <= Len(store) THEN store[2 * i] ELSE ZERO_HASHES[L])]

\* The state of the call on (mc_chunks, mc_height) when round L begins.
BeforeRound(L) == reduce_levels(MerkleState(mc_chunks), 1, L + 1)

\* C30: in a call of merkleize_chunks on a store that is not empty, every
\* round L = 1 .. height-2 replaces the n chunks it finds by their
\* ceil(n/2) parents as above, without a panic; so the arms "Parent must
\* have one child" and "Parent must have a left child" are never reached.
C30_Rounds ==
    /\ NChunks > 0 =>
          \A L \in 1..(mc_height - 2) :
              LET st == BeforeRound(L)
                  after == reduce_round(st, L)
              IN  /\ st.panic = ""
                  /\ after.panic = ""
                  /\ after.chunks = RoundRef(st.chunks, L)
                  /\ store_len(after.chunks) = (store_len(st.chunks) + 1) \div 2
                  /\ after.rounds = L
    /\ Reduced =>
          /\ mc_result.panic \notin {"Parent must have one child",
                                     "Parent must have a left child"}
          /\ NChunks > 0 => mc_result.rounds = Max(0, mc_height - 2)

C30_Witness ==
    /\ Reduced
    /\ NChunks = 5
    /\ mc_height = 5
    /\ mc_result.status = "root"
    /\ mc_result.rounds = 3
    /\ mc_result.zero_reads = 2
    /\ mc_result.root = RoundRef(RoundRef(RoundRef(mc_chunks, 1), 2), 3)[1]
    /\ \A i \in 1..NChunks : mc_chunks[i] # ZERO_HASHES[1]

\* ------------------------------------------------------------------ C31
\* C31: the height and the packing policy given at creation stay as they
\* are: no update, with whatever flushes it makes, and no finish, with its
\* padding update, changes height or should_pack.
C31_PolicyFixed ==
    /\ [](phase = "open" =>
            LET s == update(Self, Zeros(BYTES_PER_CHUNK * 2 - context_size))
            IN  s.height = height /\ s.should_pack = should_pack)
    /\ [][height' = height /\ should_pack' = should_pack]_vars

C31_Witness ==
    /\ Finished
    /\ ~should_pack
    /\ height = 3
    /\ calls = MaxCalls
    /\ store_len(chunks) = 2
    /\ store_len(result.store_in) = 3

\* ------------------------------------------------------------------ C32
\* How a call of merkleize_chunks ended: with a root, or on its final
\* assertion.
EndedNormally(m) ==
    \/ m.status = "root"
    \/ m.status = "panic" /\ m.panic = "Exactly one chunk should remain"

\* C32: a call of merkleize_chunks on a store that is not empty, at a
\* height up to MAX_TREE_DEPTH, runs exactly max(height - 2, 0) rounds, for
\* the levels 1 .. height-2; no round leaves more chunks than it found; and
\* then the call is over, with a root or on its final assertion, and does
\* nothing further.
C32_Completes ==
    /\ [](NChunks > 0 =>
            /\ \A L \in 1..(mc_height - 2) :
                   LET st == BeforeRound(L)
                       after == reduce_round(st, L)
                   IN  /\ st.rounds = L - 1
                       /\ after.rounds = L
                       /\ store_len(after.chunks) <= store_len(st.chunks)
                       /\ store_len(after.chunks) >= 1
            /\ Reduced =>
                  /\ mc_result.rounds = Max(mc_height - 2, 0)
                  /\ EndedNormally(mc_result)
            /\ NChunks <= 3 =>
                  \A h \in {MAX_TREE_DEPTH - 1, MAX_TREE_DEPTH} :
                      LET m == merkleize_chunks(mc_chunks, h)
                      IN  m.rounds = h - 2 /\ m.status = "root")
    /\ [][~Reduced /\ Reduced']_vars

C32_Witness ==
    /\ Reduced
    /\ NChunks = MaxChunks
    /\ mc_height = 4
    /\ mc_result.rounds = 2
    /\ mc_result.remaining = 3
    /\ mc_result.panic = "Exactly one chunk should remain"

\* ------------------------------------------------------------------ C33
\* Bytes that fit the tree of a Packed hasher of height h.
Capacity(h) == BYTES_PER_CHUNK * Pow2(h - 1)

\* C33 as stated: a Packed hasher that was fed more bytes than its tree
\* holds never returns a root from finish; finish halts on the assertion
\* "Exactly one chunk should remain".
C33_Original ==
    (Finished /\ should_pack /\ fed > Capacity(height))
        => /\ result.status = "panic"
           /\ result.panic = "Exactly one chunk should remain"

\* ------------------------------------------------------------------ C34
\* C34: a hasher of height 1 .. MAX_TREE_DEPTH that is finished without a
\* byte having been fed (never updated, or given empty updates only)
\* returns ZERO_HASHES[height - 1], the all-zero chunk at height 1; and
\* finish never hands merkleize_chunks an empty store.
C34_EmptyRoot ==
    /\ (Finished /\ fed = 0) =>
          /\ result.status = "root"
          /\ result.root = ZERO_HASHES[height - 1]
          /\ height = 1 => result.root = ZeroChunk
    /\ (Finished /\ ~result.fast) => store_len(result.store_in) >= 1

C34_Witness ==
    /\ Finished
    /\ fed = 0
    /\ log = <<0, 0>>
    /\ height = MAX_TREE_DEPTH
    /\ ~should_pack
    /\ result.rounds = MAX_TREE_DEPTH - 2
    /\ result.root = ZERO_HASHES[MAX_TREE_DEPTH - 1]

\* ------------------------------------------------------------------ C35
\* Bytes [64 i, 64 i + n) of the input stream, i counted from 0.
Window(i, n) == StreamSlice(input, BYTES_PER_CHUNK * 2 * i, n)

\* C35: under Packed, when T bytes have been fed in whatever updates, the
\* store holds floor(T / 64) chunks, chunk i being the hash of the stream
\* bytes [64 i, 64 i + 64), and the buffer holds the last T mod 64 bytes;
\* after the padding step of finish the store holds max(1, ceil(T / 64))
\* chunks.
C35_PackedChunks ==
    should_pack =>
        /\ store_len(chunks) = fed \div (BYTES_PER_CHUNK * 2)
        /\ \A i \in 0..(store_len(chunks) - 1) :
               get_slice(chunks, i).v = ContextFinish(Window(i, BYTES_PER_CHUNK * 2))
        /\ context_size = fed % (BYTES_PER_CHUNK * 2)
        /\ context = Window(store_len(chunks), context_size)
        /\ (Finished /\ ~result.fast) =>
               store_len(result.store_in)
                   = Max(1, (fed + BYTES_PER_CHUNK * 2 - 1) \div (BYTES_PER_CHUNK * 2))

C35_Witness ==
    /\ should_pack
    /\ Finished /\ ~result.fast
    /\ input = 2
    /\ calls = MaxCalls
    /\ fed = BYTES_PER_CHUNK * 2 + 1
    /\ store_len(chunks) = 1
    /\ context = <<BYTES_PER_CHUNK * 2 + 1>>
    /\ store_len(result.store_in) = 2

\* ------------------------------------------------------------------ C36
\* The hasher of the other packing policy, same height, given the same
\* updates from the same stream.
OtherPolicy ==
    SoloRun(new(height, ~should_pack), input, log, Len(log))

\* C36: when every update carries exactly 32 bytes (an H256 hands its 32
\* bytes to update, and is a NotPacked type), the Packed and the NotPacked
\* hasher of one height hold the same store, buffer and fast-path buffer
\* after every update, and finish gives the same outcome for both.
C36_PackedAsNotPacked ==
    /\ tree_hash_packing("H256") = NotPacked
    /\ (\A k \in DOMAIN log : log[k] = BYTES_PER_CHUNK) =>
          LET other == OtherPolicy
          IN  /\ Len(h256_tree_hash_apply_root(StreamSlice(input, fed, BYTES_PER_CHUNK)))
                    = BYTES_PER_CHUNK
              /\ other.chunks = chunks
              /\ other.context = context
              /\ other.context_size = context_size
              /\ other.first_chunk = first_chunk
              /\ other.panic = ""
              /\ Finished =>
                    /\ SameOutcome(finish(other), result)
                    /\ finish(other).store_in = result.store_in

C36_Witness ==
    /\ Finished
    /\ should_pack
    /\ input = 2
    /\ height = 3
    /\ log = <<BYTES_PER_CHUNK, BYTES_PER_CHUNK, BYTES_PER_CHUNK>>
    /\ result.status = "root"
    /\ finish(OtherPolicy).root = result.root
    /\ store_len(result.store_in) = 2

\* ------------------------------------------------------------------ C37
\* The state of round L, begun in state st, when parent i is about to be
\* computed: the parents 0 .. i-1 have been written.
BeforePair(st, L, i) == reduce_pairs(st, L, 0, i)

\* C37: overwriting the store in place gives what a separate output list
\* would give.  In every round, when parent i is computed its children 2i
\* and 2i+1 are still as the round found them, the writes made so far
\* having gone to slots below i only; so each parent is the hash of the
\* round's original children, and the round leaves the out-of-place result.
C37_InPlace ==
    NChunks > 0 =>
        \A L \in 1..(mc_height - 2) :
            LET st == BeforeRound(L)
                n == store_len(st.chunks)
                parent_nodes == next_even_number(n) \div 2
            IN  /\ \A i \in 0..(parent_nodes - 1) :
                       LET mid == BeforePair(st, L, i)
                       IN  /\ mid.panic = ""
                           /\ store_len(mid.chunks) = n
                           /\ \A j \in i..(n - 1) :
                                  get_slice(mid.chunks, j) = get_slice(st.chunks, j)
                           /\ get_slice(mid.chunks, 2 * i) = get_slice(st.chunks, 2 * i)
                           /\ get_slice(mid.chunks, 2 * i + 1)
                                 = get_slice(st.chunks, 2 * i + 1)
                           /\ get_slice(reduce_pair(mid, L, i).chunks, i).v
                                 = RoundRef(st.chunks, L)[i + 1]
                /\ reduce_round(st, L).chunks = RoundRef(st.chunks, L)

C37_Witness ==
    /\ Reduced
    /\ NChunks = 8
    /\ mc_height = 5
    /\ mc_result.status = "root"
    /\ mc_result.zero_reads = 0
    /\ \A i \in 1..NChunks : mc_chunks[i] # ZERO_HASHES[1]
    /\ BeforePair(BeforeRound(1), 1, 3).chunks[2] # mc_chunks[2]
    /\ BeforePair(BeforeRound(1), 1, 3).chunks[7] = mc_chunks[7]

\* ------------------------------------------------------------------ C38
\* The hasher of this state inside its next update of n bytes, when the
\* first k slices of bytes.chunks(32) have been processed.
AfterSlices(n, k) ==
    LET bytes == StreamSlice(input, fed, n)
    IN  update_slices(update_first_chunk(Self, bytes),
                      SubSeq(bytes, 1, Min(BYTES_PER_CHUNK * k, n)))

SliceCount(n) == (n + BYTES_PER_CHUNK - 1) \div BYTES_PER_CHUNK

\* C38: under NotPacked the buffer holds 0 or 32 bytes before and after
\* every slice of every update (finish's padding update included), so the
\* slice that comes next fits in what remains of the 64 bytes and the split
\* branch of update is never taken.
C38_NeverSplit ==
    ~should_pack =>
        /\ context_size \in {0, BYTES_PER_CHUNK}
        /\ phase = "open" =>
              \A n \in NotPackedLens \cup {BYTES_PER_CHUNK * 2 - context_size} :
                  \A k \in 0..SliceCount(n) :
                      LET s == AfterSlices(n, k)
                          next == Min(BYTES_PER_CHUNK, n - BYTES_PER_CHUNK * k)
                      IN  /\ s.context_size \in {0, BYTES_PER_CHUNK}
                          /\ s.splits = 0
                          /\ s.panic = ""
                          /\ k < SliceCount(n) =>
                                BYTES_PER_CHUNK * 2 - s.context_size >= next

C38_Witness ==
    /\ ~should_pack
    /\ phase = "open"
    /\ calls = MaxCalls
    /\ context_size = BYTES_PER_CHUNK
    /\ store_len(chunks) = 1
    /\ AfterSlices(BYTES_PER_CHUNK + 1, 1).context_size = 0
    /\ AfterSlices(BYTES_PER_CHUNK + 1, 2).context_size = BYTES_PER_CHUNK
    /\ AfterSlices(BYTES_PER_CHUNK + 1, 2).splits = 0
    /\ store_len(AfterSlices(BYTES_PER_CHUNK + 1, 2).chunks) = 2

====
